---- MODULE Spec2Model ----
(***************************************************************************)
(* A model of tiff2's directory decoder (decoder/reader.rs, util.rs,       *)
(* structs/entry.rs, structs/ifd.rs, structs/value.rs), of its partial    *)
(* tag cache (structs/image.rs) and of the decoder sketched in             *)
(* decoder/decoder.rs.                                                     *)
(*                                                                         *)
(* Integers of the program are up to 64 bits wide, so a u16/u32/u64/i*     *)
(* value is kept as its digits in base 256, least significant first        *)
(* (what Rust's to_le_bytes gives).  A byte buffer is a sequence of        *)
(* 0..255.  Small quantities (lengths, positions, indices) are naturals.   *)
(***************************************************************************)
EXTENDS Integers, Sequences, FiniteSets, TLC

VARIABLES
    host,      \* byte order of the machine the build runs on (to_ne_bytes)
    input,     \* the arguments of the call under study
    result,    \* what the call returned; NoResult before the call
    ifd,             \* the Ifd a caller holds (sub_ifds, data: tag -> IfdEntry)
    images,          \* CogDecoder.images: the overview levels that are loaded
    edition,         \* Rust edition of the build (scope of if-let temporaries)
    cache_data,      \* MaybePartial::Partial.data: chunk index -> loaded entry
    pending_chunks,  \* keys of MaybePartial::Partial.pending_chunks
    mutex,           \* holder of the pending_chunks Mutex, or Free
    pc,              \* per caller: where it is inside get_u64
    call,            \* per caller: the index argument of its current call
    returned,        \* per caller: what its last call returned
    need_reads,      \* per chunk: NeedRead descriptors handed out so far
    calls,           \* get_u64 calls started so far
    fetch,           \* per chunk: what became of the read a NeedRead asked for
    asked,           \* per chunk: get_u64 calls entered for it so far
    seen             \* per caller: asked and fetch of its chunk when it entered

cacheVars ==
    <<edition, cache_data, pending_chunks, mutex, pc, call, returned, need_reads, calls,
      fetch, asked, seen>>
vars == <<host, input, result, ifd, images, cacheVars>>

ByteOrders == {"LittleEndian", "BigEndian"}
NoResult == [tag |-> "NoResult"]

Free == 0
NoEntries == [c \in {} |-> NoResult]

\* the variables of a run that holds no Ifd and has no cache
NoIfd == [tag |-> "NoIfd"]
CacheUnused ==
    /\ ifd = NoIfd
    /\ images = {}
    /\ edition = "none"
    /\ cache_data = NoEntries
    /\ pending_chunks = {}
    /\ mutex = Free
    /\ pc = <<>>
    /\ call = <<>>
    /\ returned = <<>>
    /\ need_reads = <<>>
    /\ calls = 0
    /\ fetch = <<>>
    /\ asked = <<>>
    /\ seen = <<>>

(***************************************************************************)
(* Bounds of the model.                                                    *)
(***************************************************************************)
MaxCount == 9

(***************************************************************************)
(* Digits and bytes.                                                       *)
(***************************************************************************)
Reverse(s) == [i \in 1..Len(s) |-> s[Len(s) + 1 - i]]
Zeros(n) == [i \in 1..n |-> 0]
ZeroExt(d, n) == d \o Zeros(n - Len(d))
NatDigits(n, w) == [i \in 1..w |-> IF i = 1 THEN n % 256 ELSE IF i = 2 THEN (n \div 256) % 256 ELSE 0]
IsSmall(d) == \A i \in 2..Len(d) : d[i] = 0

from_le_bytes(n) == n
from_be_bytes(n) == Reverse(n)
to_ne_bytes(d) == IF host = "LittleEndian" THEN d ELSE Reverse(d)
from_ne_bytes(b) == IF host = "LittleEndian" THEN b ELSE Reverse(b)

(***************************************************************************)
(* TagType: the registry of field types.  tags.rs itself is not among the  *)
(* sources; codes are the TIFF 6.0 / BigTIFF field-type codes the tests    *)
(* use, widths are those the conversions and tests rely on.                *)
(***************************************************************************)
TagTypes == {"BYTE", "ASCII", "SHORT", "LONG", "RATIONAL", "SBYTE", "UNDEFINED",
             "SSHORT", "SLONG", "SRATIONAL", "FLOAT", "DOUBLE", "IFD",
             "LONG8", "SLONG8", "IFD8"}

from_u16(c) ==
    CASE c = 1 -> "BYTE" [] c = 2 -> "ASCII" [] c = 3 -> "SHORT" [] c = 4 -> "LONG"
      [] c = 5 -> "RATIONAL" [] c = 6 -> "SBYTE" [] c = 7 -> "UNDEFINED"
      [] c = 8 -> "SSHORT" [] c = 9 -> "SLONG" [] c = 10 -> "SRATIONAL"
      [] c = 11 -> "FLOAT" [] c = 12 -> "DOUBLE" [] c = 13 -> "IFD"
      [] c = 16 -> "LONG8" [] c = 17 -> "SLONG8" [] c = 18 -> "IFD8"
      [] OTHER -> "None"

size(t) ==
    CASE t \in {"BYTE", "ASCII", "SBYTE", "UNDEFINED"} -> 1
      [] t \in {"SHORT", "SSHORT"} -> 2
      [] t \in {"LONG", "SLONG", "FLOAT", "IFD"} -> 4
      [] OTHER -> 8

primitive_size(t) == IF t \in {"RATIONAL", "SRATIONAL"} THEN 4 ELSE size(t)

(***************************************************************************)
(* EndianReader over a cursor: the reader is the pair (buf, pos).          *)
(***************************************************************************)
IoError == [tag |-> "Err", err |-> <<"IoError", "UnexpectedEof">>]

read_exact(buf, pos, n) ==
    IF pos + n <= Len(buf)
    THEN [ok |-> TRUE, bytes |-> SubSeq(buf, pos + 1, pos + n), pos |-> pos + n]
    ELSE [ok |-> FALSE, bytes |-> <<>>, pos |-> Len(buf)]

read_fn(buf, pos, n, bo) ==
    LET r == read_exact(buf, pos, n)
    IN  [ok |-> r.ok,
         val |-> IF bo = "LittleEndian" THEN from_le_bytes(r.bytes)
                                        ELSE from_be_bytes(r.bytes),
         pos |-> r.pos]

read_u16(buf, pos, bo) == read_fn(buf, pos, 2, bo)
read_u32(buf, pos, bo) == read_fn(buf, pos, 4, bo)
read_u64(buf, pos, bo) == read_fn(buf, pos, 8, bo)

U16ToNat(d) == d[1] + 256 * d[2]

(***************************************************************************)
(* util.rs: fix_endianness.  chunks_exact_mut(k) visits the whole k-byte   *)
(* chunks and leaves a shorter tail alone; from_xx_bytes(v).to_ne_bytes()  *)
(* reverses a chunk exactly when xx is not the host's order.               *)
(***************************************************************************)
ChunkWidth(bit_depth) ==
    IF bit_depth <= 8 THEN 1
    ELSE IF bit_depth <= 16 THEN 2
    ELSE IF bit_depth <= 32 THEN 4
    ELSE 8

SwapChunks(buf, k) ==
    LET whole == (Len(buf) \div k) * k
    IN  [i \in 1..Len(buf) |->
            IF i <= whole
            THEN buf[((i - 1) \div k) * k + (k - ((i - 1) % k))]
            ELSE buf[i]]

\* faulty variant: bytes are left in file order
fix_endianness_never_swaps(buf, byte_order, bit_depth) == buf

fix_endianness(buf, byte_order, bit_depth) ==
    IF bit_depth <= 8 THEN buf
    ELSE IF byte_order = host THEN buf
    ELSE SwapChunks(buf, ChunkWidth(bit_depth))

(***************************************************************************)
(* u64 arithmetic of from_reader on digits.                                *)
(***************************************************************************)
RECURSIVE CarryInto(_, _, _)
CarryInto(d, k, i) ==
    IF i = 1 THEN 0 ELSE (d[i - 1] * k + CarryInto(d, k, i - 1)) \div 256

\* faulty variant: wrapping multiplication, an overflow goes unnoticed
checked_mul_wrapping(d, k) ==
    [some |-> TRUE, val |-> [i \in 1..8 |-> (d[i] * k + CarryInto(d, k, i)) % 256]]

\* count.checked_mul(k): None on overflow of 64 bits
checked_mul(d, k) ==
    IF CarryInto(d, k, 9) > 0
    THEN [some |-> FALSE, val |-> Zeros(8)]
    ELSE [some |-> TRUE, val |-> [i \in 1..8 |-> (d[i] * k + CarryInto(d, k, i)) % 256]]

\* d > n for a u64 d and a small n
GreaterThan(d, n) == (\E i \in 2..Len(d) : d[i] # 0) \/ d[1] > n

(***************************************************************************)
(* entry.rs: IfdEntry::from_reader.                                        *)
(***************************************************************************)
\* faulty variant: reference types are not sent to the offset branch
TakesOffsetBranch_no_ifd_case(bigtiff, value_bytes, tag_type) ==
    \/ (~bigtiff /\ GreaterThan(value_bytes, 4))
    \/ GreaterThan(value_bytes, 8)

TakesOffsetBranch(bigtiff, value_bytes, tag_type) ==
    \/ (~bigtiff /\ GreaterThan(value_bytes, 4))
    \/ GreaterThan(value_bytes, 8)
    \/ tag_type = "IFD"
    \/ tag_type = "IFD8"

ReadCount(buf, pos, bo, bigtiff) ==
    IF bigtiff
    THEN read_u64(buf, pos, bo)
    ELSE LET r == read_u32(buf, pos, bo)
         IN  [ok |-> r.ok, val |-> ZeroExt(r.val, 8), pos |-> r.pos]

ReadOffsetField(buf, pos, bo, bigtiff) == ReadCount(buf, pos, bo, bigtiff)

\* faulty variant: bytes are swapped per element, a rational as one 8-byte unit
InlineBranch_swaps_by_size(buf, pos, bo, tag_type, count) ==
    LET n == count[1] * size(tag_type)
        r == read_exact(buf, pos, n)
    IN  IF ~r.ok THEN IoError
        ELSE [tag |-> "Value",
              entry |-> [tag_type |-> tag_type,
                         count |-> count[1],
                         data |-> fix_endianness(r.bytes, bo, 8 * size(tag_type))],
              pos |-> r.pos]

InlineBranch(buf, pos, bo, tag_type, count) ==
    LET n == count[1] * size(tag_type)
        r == read_exact(buf, pos, n)
    IN  IF ~r.ok THEN IoError
        ELSE [tag |-> "Value",
              entry |-> [tag_type |-> tag_type,
                         count |-> count[1],
                         data |-> fix_endianness(r.bytes, bo, 8 * primitive_size(tag_type))],
              pos |-> r.pos]

OffsetBranch(buf, pos, bo, bigtiff, tag_type, count) ==
    LET r == ReadOffsetField(buf, pos, bo, bigtiff)
    IN  IF ~r.ok THEN IoError
        ELSE [tag |-> "Offset", tag_type |-> tag_type, count |-> count,
              offset |-> r.val, pos |-> r.pos]

\* faulty variant: the count is read before the type code is looked up
from_reader_count_first(buf, pos, bo, bigtiff) ==
    LET t == read_u16(buf, pos, bo)
    IN  IF ~t.ok THEN IoError
        ELSE LET c == ReadCount(buf, t.pos, bo, bigtiff)
                 t_u16 == U16ToNat(t.val)
                 tag_type == from_u16(t_u16)
             IN  IF ~c.ok THEN IoError
                 ELSE IF tag_type = "None"
                 THEN [tag |-> "Err", err |-> <<"FormatError", "InvalidTagValueType", t_u16>>]
                 ELSE LET value_bytes == checked_mul(c.val, size(tag_type))
                      IN  IF ~value_bytes.some
                          THEN [tag |-> "Err", err |-> <<"LimitsExceeded">>]
                          ELSE IF TakesOffsetBranch(bigtiff, value_bytes.val, tag_type)
                               THEN OffsetBranch(buf, c.pos, bo, bigtiff, tag_type, c.val)
                               ELSE InlineBranch(buf, c.pos, bo, tag_type, c.val)

from_reader(buf, pos, bo, bigtiff) ==
    LET t == read_u16(buf, pos, bo)
    IN  IF ~t.ok THEN IoError
        ELSE LET t_u16 == U16ToNat(t.val)
                 tag_type == from_u16(t_u16)
             IN  IF tag_type = "None"
                 THEN [tag |-> "Err", err |-> <<"FormatError", "InvalidTagValueType", t_u16>>]
                 ELSE LET c == ReadCount(buf, t.pos, bo, bigtiff)
                      IN  IF ~c.ok THEN IoError
                          ELSE LET value_bytes == checked_mul(c.val, size(tag_type))
                               IN  IF ~value_bytes.some
                                   THEN [tag |-> "Err", err |-> <<"LimitsExceeded">>]
                                   ELSE IF TakesOffsetBranch(bigtiff, value_bytes.val, tag_type)
                                        THEN OffsetBranch(buf, c.pos, bo, bigtiff, tag_type, c.val)
                                        ELSE InlineBranch(buf, c.pos, bo, tag_type, c.val)

(***************************************************************************)
(* On-disk records fed to from_reader: a type code, a count and the        *)
(* value-or-offset field, laid out in the file's byte order.               *)
(***************************************************************************)
EncodeUInt(d, bo) == IF bo = "LittleEndian" THEN d ELSE Reverse(d)

TypeCodes == {1, 2, 3, 4, 5, 6, 7, 8, 9, 10, 11, 12, 13, 16, 17, 18}
BadTypeCodes == {0, 14}

SmallCounts == {NatDigits(n, 8) : n \in 0..MaxCount}
BigCounts == {<<0, 1, 0, 0, 0, 0, 0, 0>>,
              <<0, 0, 0, 0, 1, 0, 0, 0>>,
              <<0, 0, 0, 0, 0, 0, 0, 32>>,
              <<255, 255, 255, 255, 255, 255, 255, 255>>}
Counts(bigtiff) ==
    IF bigtiff THEN SmallCounts \cup BigCounts
    ELSE {c \in SmallCounts \cup BigCounts : \A i \in 5..8 : c[i] = 0}

FieldWidth(bigtiff) == IF bigtiff THEN 8 ELSE 4
CountWidth(bigtiff) == IF bigtiff THEN 8 ELSE 4

FieldPatterns(w) ==
    {Zeros(w),
     [i \in 1..w |-> IF i = 1 THEN 42 ELSE 0],
     [i \in 1..w |-> i],
     [i \in 1..w |-> IF i < 3 THEN 64 + i ELSE 0]}

EntryRecord(code, count, field, bo, bigtiff) ==
    EncodeUInt(NatDigits(code, 2), bo)
        \o EncodeUInt(SubSeq(count, 1, CountWidth(bigtiff)), bo)
        \o field

(***************************************************************************)
(* SpecEntry: one call of IfdEntry::from_reader on one record.             *)
(***************************************************************************)
InitEntry ==
    /\ CacheUnused
    /\ host \in ByteOrders
    /\ result = NoResult
    /\ \E bo \in ByteOrders, bigtiff \in BOOLEAN, code \in TypeCodes \cup BadTypeCodes :
         \E count \in Counts(bigtiff), field \in FieldPatterns(FieldWidth(bigtiff)) :
            input = [op |-> "from_reader", byte_order |-> bo, bigtiff |-> bigtiff,
                     code |-> code, count |-> count, field |-> field,
                     buf |-> EntryRecord(code, count, field, bo, bigtiff)]

CallFromReader ==
    /\ input.op = "from_reader"
    /\ result = NoResult
    /\ result' = from_reader(input.buf, 0, input.byte_order, input.bigtiff)
    /\ UNCHANGED <<host, input, ifd, images, cacheVars>>

NextEntry == CallFromReader

SpecEntry == InitEntry /\ [][NextEntry]_vars

(***************************************************************************)
(* ifd.rs: Ifd::from_buffer.  The directory is a map from tag to entry     *)
(* (BTreeMap::insert replaces the entry of a tag already present).         *)
(***************************************************************************)
MaxEntries == 2

from_u16_exhaustive(n) == n

EmptyDirectory == [t \in {} |-> NoResult]

insert(dir, tag, entry) ==
    [t \in (DOMAIN dir) \cup {tag} |-> IF t = tag THEN entry ELSE dir[t]]

\* the IfdEntry a successful from_reader returned, without the reader position
IfdEntryOf(r) ==
    IF r.tag = "Value"
    THEN [tag |-> "Value", entry |-> r.entry]
    ELSE [tag |-> "Offset", tag_type |-> r.tag_type, count |-> r.count, offset |-> r.offset]

\* for _ in 0..num_entries: an iteration consumes bytes, so no more than
\* Len(buf) of them can succeed and a larger count ends in the short read
TripCount(d, buf) ==
    IF \E i \in 3..Len(d) : d[i] # 0 THEN Len(buf) + 1
    ELSE IF U16ToNat(d) > Len(buf) THEN Len(buf) + 1
    ELSE U16ToNat(d)

ReadNumEntries(buf, bo, bigtiff) ==
    IF bigtiff THEN read_u64(buf, 0, bo) ELSE read_u16(buf, 0, bo)

RECURSIVE ReadEntries(_, _, _, _, _, _)
ReadEntries(buf, pos, left, dir, bo, bigtiff) ==
    IF left = 0
    THEN [tag |-> "Ok", ifd |-> [sub_ifds |-> <<>>, data |-> dir]]
    ELSE LET t == read_u16(buf, pos, bo)
         IN  IF ~t.ok THEN IoError
             ELSE LET e == from_reader(buf, t.pos, bo, bigtiff)
                  IN  IF e.tag = "Err" THEN e
                      ELSE ReadEntries(buf, e.pos, left - 1,
                                       insert(dir, from_u16_exhaustive(U16ToNat(t.val)),
                                              IfdEntryOf(e)),
                                       bo, bigtiff)

from_buffer(buf, byte_order, bigtiff) ==
    LET n == ReadNumEntries(buf, byte_order, bigtiff)
    IN  IF ~n.ok THEN IoError
        ELSE ReadEntries(buf, n.pos, TripCount(n.val, buf), EmptyDirectory,
                         byte_order, bigtiff)

(***************************************************************************)
(* Directory buffers fed to from_buffer: an entry count followed by that   *)
(* many fixed-size records (tag, type, count, value-or-offset field), and  *)
(* the two byte strings of the documentation's SHORT 300 example.          *)
(***************************************************************************)
IfdTags == {256, 257}

\* (type code, count, field pattern): inline with a short payload, inline
\* filling the classic field, offset by size, offset by type, 8-byte scalar,
\* zero count
Templates ==
    {[code |-> 3, count |-> 1, pat |-> 2],
     [code |-> 1, count |-> 4, pat |-> 3],
     [code |-> 4, count |-> 3, pat |-> 2],
     [code |-> 13, count |-> 1, pat |-> 3],
     [code |-> 12, count |-> 1, pat |-> 3],
     [code |-> 2, count |-> 0, pat |-> 1]}

Field(pat, w) ==
    CASE pat = 1 -> Zeros(w)
      [] pat = 2 -> [i \in 1..w |-> IF i = 1 THEN 42 ELSE 0]
      [] OTHER -> [i \in 1..w |-> i]

RecordChoices == {[tag |-> t, code |-> m.code, count |-> m.count, pat |-> m.pat] :
                     t \in IfdTags, m \in Templates}

RecordBytes(rec, bo, bigtiff) ==
    EntryRecord(rec.code, NatDigits(rec.count, 8), Field(rec.pat, FieldWidth(bigtiff)),
                bo, bigtiff)

RECURSIVE RecordsBytes(_, _, _, _)
RecordsBytes(recs, i, bo, bigtiff) ==
    IF i > Len(recs) THEN <<>>
    ELSE EncodeUInt(NatDigits(recs[i].tag, 2), bo)
            \o RecordBytes(recs[i], bo, bigtiff)
            \o RecordsBytes(recs, i + 1, bo, bigtiff)

DirectoryBytes(recs, bo, bigtiff) ==
    EncodeUInt(NatDigits(Len(recs), IF bigtiff THEN 8 ELSE 2), bo)
        \o RecordsBytes(recs, 1, bo, bigtiff)

\* spec.md, Scenario A: 01 00 00 01 03 00 2C 01 00 00
ScenarioA10 == <<1, 0, 0, 1, 3, 0, 44, 1, 0, 0>>
\* the same directory with the record's 4-byte count field (1) in place
ScenarioA14 == <<1, 0, 0, 1, 3, 0, 1, 0, 0, 0, 44, 1, 0, 0>>

InitIfd ==
    /\ CacheUnused
    /\ host \in ByteOrders
    /\ result = NoResult
    /\ \/ \E bo \in ByteOrders, bigtiff \in BOOLEAN, n \in 0..MaxEntries :
            \E recs \in [1..n -> RecordChoices] :
               input = [op |-> "from_buffer", kind |-> "records", byte_order |-> bo,
                        bigtiff |-> bigtiff, recs |-> recs,
                        buf |-> DirectoryBytes(recs, bo, bigtiff)]
       \/ \E raw \in {ScenarioA10, ScenarioA14} :
               input = [op |-> "from_buffer", kind |-> "raw",
                        byte_order |-> "LittleEndian", bigtiff |-> FALSE,
                        recs |-> <<>>, buf |-> raw]

CallFromBuffer ==
    /\ input.op = "from_buffer"
    /\ result = NoResult
    /\ result' = from_buffer(input.buf, input.byte_order, input.bigtiff)
    /\ UNCHANGED <<host, input, ifd, images, cacheVars>>

NextIfd == CallFromBuffer

SpecIfd == InitIfd /\ [][NextIfd]_vars

(***************************************************************************)
(* entry.rs: conversions out of a BufferedEntry [tag_type, count, data].   *)
(* data holds native-order bytes; an integer value is its digits, least    *)
(* significant first.  A panic of the code is the result Panic.            *)
(***************************************************************************)
Ok(v) == [tag |-> "Ok", val |-> v]
Panic == [tag |-> "Panic"]
InconsistentSizesEncountered(val) ==
    [tag |-> "Err", err |-> <<"FormatError", "InconsistentSizesEncountered", val>>]
UnsignedIntegerExpected(val) ==
    [tag |-> "Err", err |-> <<"FormatError", "UnsignedIntegerExpected", val>>]
SignedIntegerExpected(val) ==
    [tag |-> "Err", err |-> <<"FormatError", "SignedIntegerExpected", val>>]
FloatExpected(val) == [tag |-> "Err", err |-> <<"FormatError", "FloatExpected", val>>]
IntSizeError == [tag |-> "Err", err |-> <<"IntSizeError">>]
LimitsExceeded == [tag |-> "Err", err |-> <<"LimitsExceeded">>]
IfdReadIntoEntry == [tag |-> "Err", err |-> <<"UsageError", "IfdReadIntoEntry">>]
InvalidTag == [tag |-> "Err", err |-> <<"FormatError", "InvalidTag">>]
AsciiExpected(val) == [tag |-> "Err", err |-> <<"FormatError", "AsciiExpected", val>>]

UnsignedTargets == {"u8", "u16", "u32", "u64"}
SignedTargets == {"i8", "i16", "i32", "i64"}
FloatTargets == {"f32", "f64"}
Targets == UnsignedTargets \cup SignedTargets \cup FloatTargets

size_of(T) ==
    CASE T \in {"u8", "i8"} -> 1
      [] T \in {"u16", "i16"} -> 2
      [] T \in {"u32", "i32", "f32"} -> 4
      [] OTHER -> 8

\* bytemuck::cast::<[u8; n], T>: the native-order bytes read as one T
cast(bytes) == from_ne_bytes(bytes)

\* a < b for equally long digit strings read as unsigned integers
UnsignedLess(a, b) ==
    \E i \in 1..Len(a) : a[i] < b[i] /\ \A j \in (i + 1)..Len(a) : a[j] = b[j]

\* two's complement order: compare with the sign bit flipped
Bias(d) == [i \in 1..Len(d) |-> IF i = Len(d) THEN (d[i] + 128) % 256 ELSE d[i]]
SignedLess(a, b) == UnsignedLess(Bias(a), Bias(b))

\* T::MAX and T::MIN of a w-byte target, written in n >= w bytes
UnsignedMax(w, n) == [i \in 1..n |-> IF i <= w THEN 255 ELSE 0]
SignedMax(w, n) == [i \in 1..n |-> IF i < w THEN 255 ELSE IF i = w THEN 127 ELSE 0]
SignedMin(w, n) == [i \in 1..n |-> IF i < w THEN 0 ELSE IF i = w THEN 128 ELSE 255]

\* T::from(v): lossless widening to w bytes
from(d, signed, w) ==
    [i \in 1..w |-> IF i <= Len(d) THEN d[i]
                    ELSE IF signed /\ d[Len(d)] >= 128 THEN 255 ELSE 0]

\* faulty variant: `as` without the range check
try_from_int_accepts_all(d, signed, w) == [ok |-> TRUE, val |-> SubSeq(d, 1, w)]

\* T::try_from(v) for a narrower T of w bytes (core::num): range check, then `as`
try_from_int(d, signed, w) ==
    IF signed
    THEN IF SignedLess(d, SignedMin(w, Len(d))) \/ SignedLess(SignedMax(w, Len(d)), d)
         THEN [ok |-> FALSE, val |-> <<>>]
         ELSE [ok |-> TRUE, val |-> SubSeq(d, 1, w)]
    ELSE IF UnsignedLess(UnsignedMax(w, Len(d)), d)
         THEN [ok |-> FALSE, val |-> <<>>]
         ELSE [ok |-> TRUE, val |-> SubSeq(d, 1, w)]

\* one arm of the match in a scalar conversion: cast, from or try_from(..)?
IntArm(T, data) ==
    LET v == cast(data)
        w == size_of(T)
        signed == T \in SignedTargets
    IN  IF Len(v) <= w THEN Ok([ty |-> T, digits |-> from(v, signed, w)])
        ELSE LET r == try_from_int(v, signed, w)
             IN  IF r.ok THEN Ok([ty |-> T, digits |-> r.val]) ELSE IntSizeError

\* faulty variant: the IFD and IFD8 patterns are missing
UnsignedArms_without_ifd == {"BYTE", "SHORT", "LONG", "LONG8"}
UnsignedArms == {"BYTE", "SHORT", "LONG", "IFD", "LONG8", "IFD8"}
SignedArms == {"SBYTE", "SSHORT", "SLONG", "SLONG8"}

\* faulty variant: only data that is too short is rejected
SizeCheckFails_only_when_short(val) == Len(val.data) < size(val.tag_type)

SizeCheckFails(val) == Len(val.data) # size(val.tag_type)

\* faulty variant: DOUBLE is narrowed to f32
f32_try_from_narrowing_double(val) ==
    IF SizeCheckFails(val) THEN InconsistentSizesEncountered(val)
    ELSE IF val.tag_type \in {"FLOAT", "DOUBLE"}
         THEN Ok([ty |-> "f32", bits |-> SubSeq(cast(val.data), 1, 4)])
    ELSE FloatExpected(val)

f32_try_from(val) ==
    IF SizeCheckFails(val) THEN InconsistentSizesEncountered(val)
    ELSE IF val.tag_type = "FLOAT" THEN Ok([ty |-> "f32", bits |-> cast(val.data)])
    ELSE FloatExpected(val)

\* f64::from(f32) is kept symbolic: the f64 made from these f32 bits
f64_try_from(val) ==
    IF SizeCheckFails(val) THEN InconsistentSizesEncountered(val)
    ELSE IF val.tag_type = "FLOAT"
         THEN Ok([ty |-> "f64", from_f32 |-> [ty |-> "f32", bits |-> cast(val.data)]])
    ELSE IF val.tag_type = "DOUBLE" THEN Ok([ty |-> "f64", bits |-> cast(val.data)])
    ELSE FloatExpected(val)

unsigned_try_from(T, val) ==
    IF SizeCheckFails(val) THEN InconsistentSizesEncountered(val)
    ELSE IF val.tag_type \in UnsignedArms THEN IntArm(T, val.data)
    ELSE UnsignedIntegerExpected(val)

signed_try_from(T, val) ==
    IF SizeCheckFails(val) THEN InconsistentSizesEncountered(val)
    ELSE IF val.tag_type \in SignedArms THEN IntArm(T, val.data)
    ELSE SignedIntegerExpected(val)

scalar_try_from(T, val) ==
    CASE T = "f32" -> f32_try_from(val)
      [] T = "f64" -> f64_try_from(val)
      [] T \in UnsignedTargets -> unsigned_try_from(T, val)
      [] OTHER -> signed_try_from(T, val)

\* types a slice conversion to &[T] casts; every other type is a size error
SliceArms(T) ==
    CASE T = "f32" -> {"FLOAT"} [] T = "f64" -> {"DOUBLE"}
      [] T = "u8" -> {"BYTE"} [] T = "u16" -> {"SHORT"}
      [] T = "u32" -> {"LONG", "IFD"} [] T = "u64" -> {"LONG8", "IFD8"}
      [] T = "i8" -> {"SBYTE"} [] T = "i16" -> {"SSHORT"}
      [] T = "i32" -> {"SLONG"} [] OTHER -> {"SLONG8"}

\* address of a Vec<u8>'s buffer: an empty Vec never allocated and points at
\* NonNull::dangling() = 1; a heap block of the system allocator is 8-aligned
is_aligned_to(data, align) == Len(data) > 0 \/ align = 1

Elements(data, w) ==
    [k \in 1..(Len(data) \div w) |-> cast(SubSeq(data, (k - 1) * w + 1, k * w))]

\* bytemuck::cast_slice::<u8, T>: panics on a misaligned start or a ragged length
cast_slice(T, data) ==
    IF ~is_aligned_to(data, size_of(T)) THEN Panic
    ELSE IF Len(data) % size_of(T) # 0 THEN Panic
    ELSE Ok([ty |-> T, elems |-> Elements(data, size_of(T))])

slice_try_from(T, val) ==
    IF Len(val.data) # size(val.tag_type) * val.count
    THEN InconsistentSizesEncountered(val)
    ELSE IF val.tag_type \in SliceArms(T) THEN cast_slice(T, val.data)
    ELSE InconsistentSizesEncountered(val)

GetU64Arm(val) ==
    CASE val.tag_type = "BYTE" -> "u8"
      [] val.tag_type = "SHORT" -> "u16"
      [] val.tag_type \in {"LONG", "IFD"} -> "u32"
      [] val.tag_type \in {"LONG8", "IFD8"} -> "u64"
      [] OTHER -> "none"

get_u64(val, index) ==
    IF val.count <= index THEN LimitsExceeded
    ELSE IF GetU64Arm(val) = "none" THEN UnsignedIntegerExpected(val)
    ELSE LET sl == slice_try_from(GetU64Arm(val), val)
         IN  IF sl.tag # "Ok" THEN sl
             ELSE Ok([ty |-> "u64", digits |-> from(sl.val.elems[index + 1], FALSE, 8)])

is_ascii(data) == \A i \in 1..Len(data) : data[i] < 128
ends_with_nul(data) == Len(data) > 0 /\ data[Len(data)] = 0

RECURSIVE trim_start(_)
trim_start(s) == IF Len(s) > 0 /\ s[1] = 0 THEN trim_start(Tail(s)) ELSE s
RECURSIVE trim_end(_)
trim_end(s) ==
    IF Len(s) > 0 /\ s[Len(s)] = 0 THEN trim_end(SubSeq(s, 1, Len(s) - 1)) ELSE s
trim_matches_nul(s) == trim_end(trim_start(s))

\* data[0], data[..n]: indexing past the end of the slice panics
from_single(tag_type, data) ==
    LET ne(a, b) == from_ne_bytes(SubSeq(data, a, b))
    IN  IF tag_type \in {"IFD", "IFD8"} THEN IfdReadIntoEntry
        ELSE IF Len(data) < size(tag_type) THEN Panic
        ELSE CASE tag_type = "BYTE" -> Ok([v |-> "Byte", digits |-> <<data[1]>>])
               [] tag_type = "SBYTE" -> Ok([v |-> "SignedByte", digits |-> <<data[1]>>])
               [] tag_type = "UNDEFINED" -> Ok([v |-> "Undefined", digits |-> <<data[1]>>])
               [] tag_type = "SHORT" -> Ok([v |-> "Short", digits |-> ne(1, 2)])
               [] tag_type = "SSHORT" -> Ok([v |-> "SShort", digits |-> ne(1, 2)])
               [] tag_type = "LONG" -> Ok([v |-> "Long", digits |-> ne(1, 4)])
               [] tag_type = "SLONG" -> Ok([v |-> "SLong", digits |-> ne(1, 4)])
               [] tag_type = "LONG8" -> Ok([v |-> "Long8", digits |-> ne(1, 8)])
               [] tag_type = "SLONG8" -> Ok([v |-> "SLong8", digits |-> ne(1, 8)])
               [] tag_type = "RATIONAL" ->
                      Ok([v |-> "Rational", num |-> ne(1, 4), denom |-> ne(5, 8)])
               [] tag_type = "SRATIONAL" ->
                      Ok([v |-> "SRational", num |-> ne(1, 4), denom |-> ne(5, 8)])
               [] tag_type = "FLOAT" -> Ok([v |-> "Float", bits |-> ne(1, 4)])
               [] tag_type = "DOUBLE" -> Ok([v |-> "Double", bits |-> ne(1, 8)])
               [] OTHER -> IF data[1] = 0 THEN Ok([v |-> "Ascii", str |-> <<>>])
                           ELSE InvalidTag

chunks_exact(data, w) ==
    [k \in 1..(Len(data) \div w) |-> SubSeq(data, (k - 1) * w + 1, k * w)]

\* .map(from_single).collect::<TiffResult<Vec<Value>>>(): the first Err ends it
collect(rs) ==
    IF \E k \in 1..Len(rs) : rs[k].tag # "Ok"
    THEN rs[CHOOSE k \in 1..Len(rs) :
                /\ rs[k].tag # "Ok"
                /\ \A j \in 1..(k - 1) : rs[j].tag = "Ok"]
    ELSE Ok([v |-> "List", items |-> [k \in 1..Len(rs) |-> rs[k].val]])

value_try_from(entry) ==
    IF entry.count = 1 THEN from_single(entry.tag_type, entry.data)
    ELSE IF entry.tag_type = "ASCII"
         THEN IF is_ascii(entry.data) /\ ends_with_nul(entry.data)
              THEN Ok([v |-> "Ascii", str |-> trim_matches_nul(entry.data)])
              ELSE InvalidTag
    ELSE LET chunks == chunks_exact(entry.data, size(entry.tag_type))
         IN  collect([k \in 1..Len(chunks) |-> from_single(entry.tag_type, chunks[k])])

\* TryFrom<&BufferedEntry> for &str
str_try_from(val) ==
    IF Len(val.data) # val.count THEN InconsistentSizesEncountered(val)
    ELSE IF val.tag_type \in {"ASCII", "BYTE", "UNDEFINED"}
         THEN IF is_ascii(val.data) /\ ends_with_nul(val.data)
              THEN Ok([ty |-> "str", str |-> trim_matches_nul(val.data)])
              ELSE InvalidTag
    ELSE AsciiExpected(val)

(***************************************************************************)
(* Entries handed to the conversions.  BufferedEntry's fields are public,  *)
(* so any type, count and data can meet: lengths at, below and above each  *)
(* type's width, and bytes at the edges of every integer range in either   *)
(* byte order.                                                             *)
(***************************************************************************)
MaxElems == 2

DataLengths == {0, 1, 2, 3, 4, 5, 8, 9, 16}

\* (first byte, middle bytes, last byte)
EdgeBytes ==
    {<<0, 0, 0>>, <<255, 255, 255>>, <<255, 0, 0>>, <<0, 0, 255>>,
     <<127, 0, 0>>, <<0, 0, 127>>, <<128, 0, 0>>, <<0, 0, 128>>,
     <<128, 255, 255>>, <<255, 255, 128>>, <<127, 255, 255>>, <<255, 255, 127>>,
     <<0, 0, 1>>, <<1, 0, 0>>, <<1, 2, 3>>, <<65, 66, 0>>, <<0, 65, 0>>,
     <<65, 0, 0>>}

DataOf(n, e) == [i \in 1..n |-> IF i = 1 THEN e[1] ELSE IF i = n THEN e[3] ELSE e[2]]

Datas == {DataOf(n, e) : n \in DataLengths, e \in EdgeBytes}

\* the entry of image.rs' test_arcyness
test_arcyness_entry == [tag_type |-> "BYTE", count |-> 5, data |-> <<42, 43, 44, 45, 46>>]

BufferedEntries ==
    [tag_type : TagTypes, count : 0..MaxElems, data : Datas] \cup {test_arcyness_entry}

InitConv ==
    /\ CacheUnused
    /\ host \in ByteOrders
    /\ result = NoResult
    /\ \E e \in BufferedEntries : input = [op |-> "convert", entry |-> e]

Returned(conv, target, index, ret) ==
    [tag |-> "Returned", conv |-> conv, target |-> target, index |-> index, ret |-> ret]

ScalarTryFrom ==
    /\ input.op = "convert"
    /\ result = NoResult
    /\ \E T \in Targets :
          result' = Returned("scalar", T, 0, scalar_try_from(T, input.entry))
    /\ UNCHANGED <<host, input, ifd, images, cacheVars>>

SliceTryFrom ==
    /\ input.op = "convert"
    /\ result = NoResult
    /\ \E T \in Targets :
          result' = Returned("slice", T, 0, slice_try_from(T, input.entry))
    /\ UNCHANGED <<host, input, ifd, images, cacheVars>>

GetU64 ==
    /\ input.op = "convert"
    /\ result = NoResult
    /\ \E index \in 0..MaxElems :
          result' = Returned("get_u64", "u64", index, get_u64(input.entry, index))
    /\ UNCHANGED <<host, input, ifd, images, cacheVars>>

ValueTryFrom ==
    /\ input.op = "convert"
    /\ result = NoResult
    /\ result' = Returned("value", "Value", 0, value_try_from(input.entry))
    /\ UNCHANGED <<host, input, ifd, images, cacheVars>>

StrTryFrom ==
    /\ input.op = "convert"
    /\ result = NoResult
    /\ result' = Returned("str", "str", 0, str_try_from(input.entry))
    /\ UNCHANGED <<host, input, ifd, images, cacheVars>>

NextConv == ScalarTryFrom \/ SliceTryFrom \/ GetU64 \/ ValueTryFrom \/ StrTryFrom

SpecConv == InitConv /\ [][NextConv]_vars

(***************************************************************************)
(* image.rs: MaybePartial::get_u64.  Callers run get_u64 concurrently on   *)
(* one shared MaybePartial; a step is one access to shared state.  The     *)
(* map `data` is only ever read (nothing in the crate stores a chunk), so  *)
(* its RwLock is never write-locked and try_read always succeeds.          *)
(*                                                                         *)
(* The guard of the first pending_chunks.try_lock() is a temporary of the  *)
(* if-let scrutinee: up to edition 2021 it lives until the end of the      *)
(* whole if-let-else, in edition 2024 it is dropped before the else block. *)
(* The crate's manifest is not part of the sources, so both are builds.    *)
(***************************************************************************)
MaxCallers == 2
MaxCalls == 3
MaxIndex == 3

Callers == 1..MaxCallers
Indices == 0..MaxIndex
Editions == {"2021", "2024"}
ChunkSizes == {0, 1, 2}

TryLockError == [tag |-> "Err", err |-> <<"TryLockError">>]

\* an entry of n BYTE elements, distinct per chunk
ChunkEntry(c, n) == [tag_type |-> "BYTE", count |-> n, data |-> [i \in 1..n |-> 10 * c + i]]

i_chunk(index) == index \div input.chunk_size
subindex(index) == index % input.chunk_size

NeedRead ==
    [tag |-> "NeedRead", offset |-> input.offset, count |-> input.chunk_size,
     buf |-> Zeros(input.chunk_size)]
Pending(c) == [tag |-> "Pending", cv |-> c]
\* Ok(MaybePartialIndex::Ok(entry.get_u64(i)?))
OkOf(r) == IF r.tag = "Ok" THEN [tag |-> "Ok", val |-> r.val] ELSE r

Return(t, out) ==
    /\ returned' = [returned EXCEPT ![t] = [index |-> call[t], out |-> out]]
    /\ pc' = [pc EXCEPT ![t] = "idle"]

InitCache ==
    /\ host \in ByteOrders
    /\ result = NoResult
    /\ ifd = NoIfd
    /\ images = {}
    /\ edition \in Editions
    /\ \/ /\ input = [op |-> "get", variant |-> "Whole", offset |-> 0, chunk_size |-> 0,
                      entry |-> ChunkEntry(4, MaxIndex)]
          /\ cache_data = NoEntries
       \/ \E cs \in ChunkSizes, loaded \in {{}, {0}} :
             /\ input = [op |-> "get", variant |-> "Partial", offset |-> 64,
                         chunk_size |-> cs, entry |-> ChunkEntry(0, 0)]
             /\ cache_data = [c \in loaded |-> ChunkEntry(c, cs)]
    /\ pending_chunks = {}
    /\ mutex = Free
    /\ pc = [t \in Callers |-> "idle"]
    /\ call = [t \in Callers |-> 0]
    /\ returned = [t \in Callers |-> NoResult]
    /\ need_reads = [c \in Indices |-> 0]
    /\ calls = 0
    /\ fetch = [c \in Indices |-> "none"]
    /\ asked = [c \in Indices |-> 0]
    /\ seen = [t \in Callers |-> NoResult]

\* the chunk an index belongs to (chunk 0 where the cache has no chunks)
ChunkAt(index) ==
    IF input.variant = "Partial" /\ input.chunk_size > 0 THEN i_chunk(index) ELSE 0

\* a caller enters get_u64(index)
Enter(t, index) ==
    /\ pc[t] = "idle"
    /\ calls < MaxCalls
    /\ calls' = calls + 1
    /\ call' = [call EXCEPT ![t] = index]
    /\ asked' = [asked EXCEPT ![ChunkAt(index)] = @ + 1]
    /\ seen' = [seen EXCEPT ![t] = [nth |-> asked[ChunkAt(index)] + 1,
                                    fetch |-> fetch[ChunkAt(index)]]]

\* MaybePartial::Whole(e) => Ok(MaybePartialIndex::Ok(e.get_u64(index)?))
GetWhole(t, index) ==
    /\ input.variant = "Whole"
    /\ Enter(t, index)
    /\ returned' = [returned EXCEPT ![t] = [index |-> index,
                                            out |-> OkOf(get_u64(input.entry, index))]]
    /\ UNCHANGED <<host, input, result, ifd, images, edition, cache_data, pending_chunks, mutex, pc,
                   need_reads, fetch>>

\* index / chunk_size with chunk_size = 0 panics
GetDivByZero(t, index) ==
    /\ input.variant = "Partial"
    /\ input.chunk_size = 0
    /\ Enter(t, index)
    /\ returned' = [returned EXCEPT ![t] = [index |-> index, out |-> Panic]]
    /\ UNCHANGED <<host, input, result, ifd, images, edition, cache_data, pending_chunks, mutex, pc,
                   need_reads, fetch>>

GetPartial(t, index) ==
    /\ input.variant = "Partial"
    /\ input.chunk_size > 0
    /\ Enter(t, index)
    /\ pc' = [pc EXCEPT ![t] = "try_read"]
    /\ returned' = [returned EXCEPT ![t] = NoResult]
    /\ UNCHANGED <<host, input, result, ifd, images, edition, cache_data, pending_chunks, mutex,
                   need_reads, fetch>>

\* faulty variant: the loaded chunks are not consulted
TryRead_skips_data(t) ==
    /\ pc[t] = "try_read"
    /\ pc' = [pc EXCEPT ![t] = "try_lock"]
    /\ UNCHANGED <<host, input, result, ifd, images, edition, cache_data, pending_chunks, mutex, call,
                   returned, need_reads, calls, fetch, asked, seen>>

\* if let Some(entry) = data.try_read()?.get(&i_chunk)
TryRead(t) ==
    /\ pc[t] = "try_read"
    /\ IF i_chunk(call[t]) \in DOMAIN cache_data
       THEN Return(t, OkOf(get_u64(cache_data[i_chunk(call[t])], subindex(call[t]))))
       ELSE /\ pc' = [pc EXCEPT ![t] = "try_lock"]
            /\ UNCHANGED returned
    /\ UNCHANGED <<host, input, result, ifd, images, edition, cache_data, pending_chunks, mutex, call,
                   need_reads, calls, fetch, asked, seen>>

\* pending_chunks.try_lock()? of the inner if-let: Err when the mutex is held
TryLock(t) ==
    /\ pc[t] = "try_lock"
    /\ IF mutex # Free
       THEN Return(t, TryLockError) /\ UNCHANGED mutex
       ELSE /\ mutex' = t
            /\ pc' = [pc EXCEPT ![t] = "lookup"]
            /\ UNCHANGED returned
    /\ UNCHANGED <<host, input, result, ifd, images, edition, cache_data, pending_chunks, call,
                   need_reads, calls, fetch, asked, seen>>

\* .get(&i_chunk) under the guard: Pending, or on to the else block, where
\* the guard is still alive in edition 2021 and already dropped in 2024
Lookup(t) ==
    /\ pc[t] = "lookup"
    /\ IF i_chunk(call[t]) \in pending_chunks
       THEN Return(t, Pending(i_chunk(call[t]))) /\ mutex' = Free
       ELSE /\ pc' = [pc EXCEPT ![t] = "try_lock_insert"]
            /\ mutex' = IF edition = "2021" THEN mutex ELSE Free
            /\ UNCHANGED returned
    /\ UNCHANGED <<host, input, result, ifd, images, edition, cache_data, pending_chunks, call,
                   need_reads, calls, fetch, asked, seen>>

\* pending_chunks.try_lock()? of the else block; on Err every guard is dropped
TryLockInsert(t) ==
    /\ pc[t] = "try_lock_insert"
    /\ IF mutex # Free
       THEN /\ Return(t, TryLockError)
            /\ mutex' = IF mutex = t THEN Free ELSE mutex
       ELSE /\ mutex' = t
            /\ pc' = [pc EXCEPT ![t] = "insert"]
            /\ UNCHANGED returned
    /\ UNCHANGED <<host, input, result, ifd, images, edition, cache_data, pending_chunks, call,
                   need_reads, calls, fetch, asked, seen>>

\* .insert(i_chunk, Condvar::new()); then Ok(NeedRead {..})
Insert(t) ==
    /\ pc[t] = "insert"
    /\ pending_chunks' = pending_chunks \cup {i_chunk(call[t])}
    /\ mutex' = Free
    /\ need_reads' = [need_reads EXCEPT ![i_chunk(call[t])] = @ + 1]
    /\ fetch' = [fetch EXCEPT ![i_chunk(call[t])] = "in_flight"]
    /\ Return(t, NeedRead)
    /\ UNCHANGED <<host, input, result, ifd, images, edition, cache_data, call, calls, asked, seen>>

NextCache ==
    \E t \in Callers :
        \/ \E index \in Indices :
              GetWhole(t, index) \/ GetDivByZero(t, index) \/ GetPartial(t, index)
        \/ TryRead(t)
        \/ TryLock(t)
        \/ Lookup(t)
        \/ TryLockInsert(t)
        \/ Insert(t)

SpecCache == InitCache /\ [][NextCache]_vars

(***************************************************************************)
(* SpecFetch: the cache together with the reads its callers do.  A caller  *)
(* that received NeedRead{offset, count, buf} reads the chunk's bytes; the *)
(* read fails or completes.  MaybePartial has get_u64 and nothing else:    *)
(* there is no operation that takes the outcome, so neither event changes  *)
(* data or pending_chunks.                                                 *)
(***************************************************************************)
FetchFails(c) ==
    /\ input.op = "get"
    /\ fetch[c] = "in_flight"
    /\ fetch' = [fetch EXCEPT ![c] = "failed"]
    /\ UNCHANGED <<host, input, result, ifd, images, edition, cache_data, pending_chunks, mutex, pc,
                   call, returned, need_reads, calls, asked, seen>>

FetchCompletes(c) ==
    /\ input.op = "get"
    /\ fetch[c] = "in_flight"
    /\ fetch' = [fetch EXCEPT ![c] = "completed"]
    /\ UNCHANGED <<host, input, result, ifd, images, edition, cache_data, pending_chunks, mutex, pc,
                   call, returned, need_reads, calls, asked, seen>>

NextFetch ==
    \/ NextCache
    \/ \E c \in Indices : FetchFails(c) \/ FetchCompletes(c)

SpecFetch == InitCache /\ [][NextFetch]_vars

(***************************************************************************)
(* entry.rs: TryFrom<Value> for BufferedEntry, and the round trip of a     *)
(* Value through an on-disk record.  A Value is a record [v, digits] for   *)
(* the integer variants, [v, bits] for Float and Double, [v, num, denom]   *)
(* for the rationals, [v, str] for Ascii and [v, items] for List.          *)
(***************************************************************************)
MaxStrLen == 2
MaxItems == 2

TypeOfVariant(v) ==
    CASE v = "Byte" -> "BYTE" [] v = "SignedByte" -> "SBYTE" [] v = "Undefined" -> "UNDEFINED"
      [] v = "Short" -> "SHORT" [] v = "SShort" -> "SSHORT" [] v = "Long" -> "LONG"
      [] v = "Ifd" -> "IFD" [] v = "SLong" -> "SLONG" [] v = "Long8" -> "LONG8"
      [] v = "Ifd8" -> "IFD8" [] v = "SLong8" -> "SLONG8" [] v = "Float" -> "FLOAT"
      [] v = "Double" -> "DOUBLE" [] v = "Rational" -> "RATIONAL"
      [] v = "SRational" -> "SRATIONAL" [] OTHER -> "ASCII"

RECURSIVE buffered_entry_try_from(_)
RECURSIVE AppendRest(_, _, _)
\* for v in &vec[1..]: the items from the k-th on, appended to buf
AppendRest(buf, vec, k) ==
    IF k > Len(vec) THEN Ok(buf)
    ELSE LET temp == buffered_entry_try_from(vec[k])
         IN  IF temp.tag # "Ok" THEN temp
             ELSE IF temp.val.tag_type # buf.tag_type THEN InvalidTag
             ELSE AppendRest([buf EXCEPT !.data = @ \o temp.val.data,
                                         !.count = @ + temp.val.count], vec, k + 1)

buffered_entry_try_from(val) ==
    CASE val.v = "Ascii" ->
             Ok([tag_type |-> "ASCII", count |-> Len(val.str) + 1, data |-> val.str \o <<0>>])
      [] val.v \in {"Rational", "SRational"} ->
             Ok([tag_type |-> TypeOfVariant(val.v), count |-> 1,
                 data |-> to_ne_bytes(val.num) \o to_ne_bytes(val.denom)])
      [] val.v \in {"Float", "Double"} ->
             Ok([tag_type |-> TypeOfVariant(val.v), count |-> 1, data |-> to_ne_bytes(val.bits)])
      [] val.v = "List" ->
             IF Len(val.items) = 0 THEN Panic
             ELSE LET buf == buffered_entry_try_from(val.items[1])
                  IN  IF buf.tag # "Ok" THEN buf ELSE AppendRest(buf.val, val.items, 2)
      [] OTHER ->
             Ok([tag_type |-> TypeOfVariant(val.v), count |-> 1, data |-> to_ne_bytes(val.digits)])

\* f32 and f64 equality on the bit patterns: a NaN equals nothing, the two
\* zeros are equal
is_nan(bits) ==
    IF Len(bits) = 4
    THEN /\ (bits[4] % 128) * 2 + (bits[3] \div 128) = 255
         /\ (bits[3] % 128 # 0 \/ bits[2] # 0 \/ bits[1] # 0)
    ELSE /\ (bits[8] % 128) * 16 + (bits[7] \div 16) = 2047
         /\ (bits[7] % 16 # 0 \/ \E i \in 1..6 : bits[i] # 0)
is_zero(bits) ==
    /\ \A i \in 1..(Len(bits) - 1) : bits[i] = 0
    /\ bits[Len(bits)] % 128 = 0
float_eq(a, b) == ~is_nan(a) /\ ~is_nan(b) /\ (a = b \/ (is_zero(a) /\ is_zero(b)))

\* #[derive(PartialEq)] on Value
RECURSIVE eq(_, _)
eq(a, b) ==
    /\ a.v = b.v
    /\ CASE a.v \in {"Float", "Double"} -> float_eq(a.bits, b.bits)
         [] a.v = "List" ->
                /\ Len(a.items) = Len(b.items)
                /\ \A k \in 1..Len(a.items) : eq(a.items[k], b.items[k])
         [] OTHER -> a = b

\* The record of an entry on disk, as the test tables of entry.rs write it:
\* type code and count in file order, then the field: the data in file order
\* padded with zeros when it fits, the offset of the data otherwise.
to_u16(t) == CHOOSE c \in TypeCodes : from_u16(c) = t
DataOffset == <<42, 0, 0, 0, 0, 0, 0, 0>>
OnDiskField(entry, bo, bigtiff) ==
    IF TakesOffsetBranch(bigtiff, NatDigits(Len(entry.data), 8), entry.tag_type)
    THEN EncodeUInt(SubSeq(DataOffset, 1, FieldWidth(bigtiff)), bo)
    ELSE ZeroExt(IF bo = host THEN entry.data
                 ELSE SwapChunks(entry.data, primitive_size(entry.tag_type)),
                 FieldWidth(bigtiff))
OnDiskRecord(entry, bo, bigtiff) ==
    EntryRecord(to_u16(entry.tag_type), NatDigits(entry.count, 8),
                OnDiskField(entry, bo, bigtiff), bo, bigtiff)

\* Value -> BufferedEntry -> record -> from_reader -> Value
Decoded_back(dec) ==
    IF dec.tag = "Value" THEN value_try_from(dec.entry) ELSE IfdEntryOf(dec)
round_trip(val, bo, bigtiff) ==
    LET encoded == buffered_entry_try_from(val)
    IN  IF encoded.tag # "Ok"
        THEN [tag |-> "RoundTrip", encoded |-> encoded, record |-> <<>>,
              decoded |-> NoResult, back |-> encoded]
        ELSE LET record == OnDiskRecord(encoded.val, bo, bigtiff)
                 decoded == from_reader(record, 0, bo, bigtiff)
             IN  [tag |-> "RoundTrip", encoded |-> encoded, record |-> record,
                  decoded |-> decoded, back |-> Decoded_back(decoded)]

(***************************************************************************)
(* SpecRound: one round trip of one Value.  Integers at a small and a      *)
(* byte-order-sensitive pattern, floats with a NaN, strings over NUL and   *)
(* letters (and one non-ASCII string), lists of up to MaxItems items.      *)
(***************************************************************************)
DigitVariants ==
    {<<"Byte", 1>>, <<"SignedByte", 1>>, <<"Undefined", 1>>, <<"Short", 2>>,
     <<"SShort", 2>>, <<"Long", 4>>, <<"SLong", 4>>, <<"Ifd", 4>>, <<"Long8", 8>>,
     <<"SLong8", 8>>, <<"Ifd8", 8>>}
Small(w) == [i \in 1..w |-> IF i = 1 THEN 42 ELSE 0]
Counting(w) == [i \in 1..w |-> i]
NaN32 == <<0, 0, 192, 127>>
IntegerValues ==
    UNION {{[v |-> k[1], digits |-> p] : p \in {Small(k[2]), Counting(k[2])}} :
              k \in DigitVariants}
FloatValues ==
    {[v |-> "Float", bits |-> b] : b \in {Small(4), Counting(4), NaN32}}
        \cup {[v |-> "Double", bits |-> b] : b \in {Small(8), Counting(8)}}
RationalValues ==
    {[v |-> k, num |-> n, denom |-> Small(4)] :
        k \in {"Rational", "SRational"}, n \in {Small(4), Counting(4)}}
Strings ==
    UNION {[1..n -> {0, 65, 66}] : n \in 0..MaxStrLen} \cup {<<195, 169>>, <<65, 66, 67, 68>>}
AsciiValues == {[v |-> "Ascii", str |-> str] : str \in Strings}
Items ==
    {[v |-> k[1], digits |-> Small(k[2])] : k \in DigitVariants}
        \cup {[v |-> "Float", bits |-> Small(4)], [v |-> "Double", bits |-> Small(8)],
              [v |-> "Rational", num |-> Small(4), denom |-> Small(4)],
              [v |-> "Ascii", str |-> <<65>>]}
ListValues == {[v |-> "List", items |-> items] : items \in UNION {[1..n -> Items] : n \in 0..MaxItems}}
Values == IntegerValues \cup FloatValues \cup RationalValues \cup AsciiValues \cup ListValues

InitRound ==
    /\ CacheUnused
    /\ host \in ByteOrders
    /\ result = NoResult
    /\ \E val \in Values, bo \in ByteOrders, bigtiff \in BOOLEAN :
          input = [op |-> "round_trip", value |-> val, byte_order |-> bo, bigtiff |-> bigtiff]

RoundTrip ==
    /\ input.op = "round_trip"
    /\ result = NoResult
    /\ result' = round_trip(input.value, input.byte_order, input.bigtiff)
    /\ UNCHANGED <<host, input, ifd, images, cacheVars>>

NextRound == RoundTrip

SpecRound == InitRound /\ [][NextRound]_vars

(***************************************************************************)
(* ifd.rs: the queries of an Ifd and insert_tag_data_from_buffer.  ifd is  *)
(* the Ifd [sub_ifds, data]; data maps a tag to an IfdEntry.               *)
(***************************************************************************)
None == [tag |-> "None"]
Some(x) == [tag |-> "Some", val |-> x]
RequiredTagNotFound(tag) ==
    [tag |-> "Err", err |-> <<"FormatError", "RequiredTagNotFound", tag>>]
RequiredTagNotLoaded(tag, tag_type, count, offset) ==
    [tag |-> "Err",
     err |-> <<"UsageError", "RequiredTagNotLoaded", tag, tag_type, count, offset>>]
DuplicateTagData == [tag |-> "Err", err |-> <<"UsageError", "DuplicateTagData">>]

\* BTreeMap::get
get(dir, tag) == IF tag \in DOMAIN dir THEN Some(dir[tag]) ELSE None

get_tag(self, tag) == get(self.data, tag)

require_tag(self, tag) ==
    IF get(self.data, tag) = None THEN RequiredTagNotFound(tag)
    ELSE Ok(get(self.data, tag).val)

require_tag_value(self, tag) ==
    LET r == require_tag(self, tag)
    IN  IF r.tag # "Ok" THEN r
        ELSE IF r.val.tag = "Offset"
             THEN RequiredTagNotLoaded(tag, r.val.tag_type, r.val.count, r.val.offset)
        ELSE Ok(r.val.entry)

\* faulty variant: an entry that is not loaded is reported as not present
get_tag_value_unloaded_as_absent(self, tag) ==
    IF get_tag(self, tag) # None /\ get_tag(self, tag).val.tag = "Value"
    THEN Ok(Some(get_tag(self, tag).val.entry))
    ELSE Ok(None)

get_tag_value(self, tag) ==
    LET be == get_tag(self, tag)
    IN  IF be # None
        THEN IF be.val.tag = "Offset"
             THEN RequiredTagNotLoaded(tag, be.val.tag_type, be.val.count, be.val.offset)
             ELSE Ok(Some(be.val.entry))
        ELSE Ok(None)

contains_key(self, tag) == tag \in DOMAIN self.data

\* self.data.insert(*tag, IfdEntry::Value(data)): the new Ifd and the old entry
insert_tag_data_from_buffer(self, tag, data) ==
    [self |-> [self EXCEPT !.data = insert(self.data, tag, [tag |-> "Value", entry |-> data])],
     ret |-> get(self.data, tag)]

(***************************************************************************)
(* SpecDir: a caller holds one Ifd and queries it and loads tag data into  *)
(* it, in any order.  Each tag starts absent, as an Offset or as a Value.  *)
(***************************************************************************)
Tags == {256, 257}
OffsetEntries ==
    {[tag |-> "Offset", tag_type |-> "LONG", count |-> NatDigits(5, 8),
      offset |-> NatDigits(42, 8)],
     [tag |-> "Offset", tag_type |-> "IFD", count |-> NatDigits(1, 8),
      offset |-> NatDigits(8, 8)]}
LoadedData ==
    {[tag_type |-> "SHORT", count |-> 1, data |-> <<44, 1>>],
     [tag_type |-> "LONG", count |-> 5, data |-> [i \in 1..20 |-> i]]}
ValueEntries == {[tag |-> "Value", entry |-> e] : e \in LoadedData}
Directories ==
    UNION {[present -> OffsetEntries \cup ValueEntries] : present \in SUBSET Tags}

InitDir ==
    /\ host \in ByteOrders
    /\ input = [op |-> "directory"]
    /\ result = NoResult
    /\ \E dir \in Directories : ifd = [sub_ifds |-> <<>>, data |-> dir]
    /\ images = {}
    /\ edition = "none"
    /\ cache_data = NoEntries
    /\ pending_chunks = {}
    /\ mutex = Free
    /\ pc = <<>>
    /\ call = <<>>
    /\ returned = <<>>
    /\ need_reads = <<>>
    /\ calls = 0
    /\ fetch = <<>>
    /\ asked = <<>>
    /\ seen = <<>>

Queried(query, tag, ret) == [tag |-> "Queried", query |-> query, key |-> tag, ret |-> ret]

GetTag(tag) ==
    /\ input.op = "directory"
    /\ result' = Queried("get_tag", tag, get_tag(ifd, tag))
    /\ UNCHANGED <<host, input, ifd, images, cacheVars>>

RequireTag(tag) ==
    /\ input.op = "directory"
    /\ result' = Queried("require_tag", tag, require_tag(ifd, tag))
    /\ UNCHANGED <<host, input, ifd, images, cacheVars>>

RequireTagValue(tag) ==
    /\ input.op = "directory"
    /\ result' = Queried("require_tag_value", tag, require_tag_value(ifd, tag))
    /\ UNCHANGED <<host, input, ifd, images, cacheVars>>

GetTagValue(tag) ==
    /\ input.op = "directory"
    /\ result' = Queried("get_tag_value", tag, get_tag_value(ifd, tag))
    /\ UNCHANGED <<host, input, ifd, images, cacheVars>>

ContainsKey(tag) ==
    /\ input.op = "directory"
    /\ result' = Queried("contains_key", tag, contains_key(ifd, tag))
    /\ UNCHANGED <<host, input, ifd, images, cacheVars>>

InsertTagDataFromBuffer(tag, data) ==
    /\ input.op = "directory"
    /\ ifd' = insert_tag_data_from_buffer(ifd, tag, data).self
    /\ result' = [tag |-> "Inserted", key |-> tag, data |-> data, before |-> ifd,
                  ret |-> insert_tag_data_from_buffer(ifd, tag, data).ret]
    /\ UNCHANGED <<host, input, images, cacheVars>>

NextDir ==
    \E tag \in Tags :
        \/ GetTag(tag)
        \/ RequireTag(tag)
        \/ RequireTagValue(tag)
        \/ GetTagValue(tag)
        \/ ContainsKey(tag)
        \/ \E data \in LoadedData : InsertTagDataFromBuffer(tag, data)

SpecDir == InitDir /\ [][NextDir]_vars

(***************************************************************************)
(* decoder.rs: CogDecoder, which the file holds as a commented-out sketch: *)
(* images maps an overview level to its Image, get_chunk looks the level   *)
(* up.  from_url and read_overviews appear only in the sketch's tests.     *)
(***************************************************************************)
MaxLevel == 2
MaxChunk == 2

OverviewLevels == 0..MaxLevel
ChunkIndices == 0..MaxChunk

\* img.clone().decode_chunk(i_chunk): a future that does not reference self
decode_chunk(zoom_level, chunk) ==
    [tag |-> "Future", image |-> zoom_level, i_chunk |-> chunk]

\* match self.images.get(&zoom_level) { None => panic!(), Some(img) => .. }
get_chunk(self_images, chunk, zoom_level) ==
    IF zoom_level \notin self_images THEN Panic
    ELSE decode_chunk(zoom_level, chunk)

\* CogDecoder::from_url(..): no overview is loaded yet
InitLevels ==
    /\ host \in ByteOrders
    /\ input = [op |-> "decoder"]
    /\ result = NoResult
    /\ ifd = NoIfd
    /\ images = {}
    /\ edition = "none"
    /\ cache_data = NoEntries
    /\ pending_chunks = {}
    /\ mutex = Free
    /\ pc = <<>>
    /\ call = <<>>
    /\ returned = <<>>
    /\ need_reads = <<>>
    /\ calls = 0
    /\ fetch = <<>>
    /\ asked = <<>>
    /\ seen = <<>>

\* decoder.read_overviews(vec![..]).await: the levels' IFDs are read
ReadOverviews(levels) ==
    /\ input.op = "decoder"
    /\ images' = images \cup levels
    /\ result' = [tag |-> "ReadOverviews", levels |-> levels, before |-> images, ret |-> Ok(<<>>)]
    /\ UNCHANGED <<host, input, ifd, cacheVars>>

GetChunk(chunk, zoom_level) ==
    /\ input.op = "decoder"
    /\ result' = [tag |-> "GetChunk", i_chunk |-> chunk, zoom_level |-> zoom_level,
                  before |-> images, ret |-> get_chunk(images, chunk, zoom_level)]
    /\ UNCHANGED <<host, input, ifd, images, cacheVars>>

NextLevels ==
    \/ \E levels \in SUBSET OverviewLevels : ReadOverviews(levels)
    \/ \E chunk \in ChunkIndices, zoom_level \in OverviewLevels : GetChunk(chunk, zoom_level)

SpecLevels == InitLevels /\ [][NextLevels]_vars

(***************************************************************************)
(* SpecTrunc: the reader on buffers that end early.  A record or a         *)
(* directory buffer is cut after any number of its bytes and handed to     *)
(* from_reader or from_buffer; a primitive read of 1, 2, 4 or 8 bytes is   *)
(* made at a position of a short buffer.                                   *)
(***************************************************************************)
PrimitiveWidths == {1, 2, 4, 8}
UnknownTypeCodes == {0, 14, 15, 19, 255, 256, 65535}
CountingField(w) == [i \in 1..w |-> i]
Truncated(buf, cut) == SubSeq(buf, 1, cut)
\* where a buffer ends does not depend on the tags: every record has tag 256
RecordsOfOneTag == {rec \in RecordChoices : rec.tag = 256}

InitTrunc ==
    /\ CacheUnused
    /\ host \in ByteOrders
    /\ result = NoResult
    /\ \/ \E bo \in ByteOrders, bigtiff \in BOOLEAN, code \in TypeCodes \cup UnknownTypeCodes :
            \E count \in Counts(bigtiff) :
               LET field == CountingField(FieldWidth(bigtiff))
                   whole == EntryRecord(code, count, field, bo, bigtiff)
               IN  \E cut \in 0..Len(whole) :
                      input = [op |-> "from_reader", byte_order |-> bo, bigtiff |-> bigtiff,
                               code |-> code, count |-> count, field |-> field,
                               whole |-> whole, cut |-> cut, buf |-> Truncated(whole, cut)]
       \/ \E bo \in ByteOrders, bigtiff \in BOOLEAN, n \in 0..MaxEntries :
            \E recs \in [1..n -> RecordsOfOneTag] :
               LET whole == DirectoryBytes(recs, bo, bigtiff)
               IN  \E cut \in 0..Len(whole) :
                      input = [op |-> "from_buffer", kind |-> "records", byte_order |-> bo,
                               bigtiff |-> bigtiff, recs |-> recs,
                               whole |-> whole, cut |-> cut, buf |-> Truncated(whole, cut)]
       \/ \E bo \in ByteOrders, len \in 0..9, pos \in 0..1 :
            /\ pos <= len
            /\ input = [op |-> "read", byte_order |-> bo, pos |-> pos,
                        buf |-> CountingField(len)]

\* read_u8 .. read_f64 at the reader's position
ReadFn ==
    /\ input.op = "read"
    /\ result = NoResult
    /\ \E n \in PrimitiveWidths :
          result' = [tag |-> "Read", n |-> n,
                     ret |-> read_fn(input.buf, input.pos, n, input.byte_order)]
    /\ UNCHANGED <<host, input, ifd, images, cacheVars>>

NextTrunc == CallFromReader \/ CallFromBuffer \/ ReadFn

SpecTrunc == InitTrunc /\ [][NextTrunc]_vars

(***************************************************************************)
(* SpecMake: the three places that build a BufferedEntry: the inline       *)
(* branch of from_reader, BufferedEntry::new and TryFrom<Value>.           *)
(***************************************************************************)
\* BufferedEntry::new: data of size * count zero bytes
new(tag_type, count) ==
    Ok([tag_type |-> tag_type, count |-> count, data |-> Zeros(size(tag_type) * count)])

InitMake ==
    \/ InitEntry
    \/ /\ CacheUnused
       /\ host \in ByteOrders
       /\ result = NoResult
       /\ \/ \E tag_type \in TagTypes, count \in 0..MaxCount :
                input = [op |-> "new", tag_type |-> tag_type, count |-> count]
          \/ \E val \in Values : input = [op |-> "entry_of_value", value |-> val]

New ==
    /\ input.op = "new"
    /\ result = NoResult
    /\ result' = [tag |-> "Made", ret |-> new(input.tag_type, input.count)]
    /\ UNCHANGED <<host, input, ifd, images, cacheVars>>

BufferedEntryTryFrom ==
    /\ input.op = "entry_of_value"
    /\ result = NoResult
    /\ result' = [tag |-> "Made", ret |-> buffered_entry_try_from(input.value)]
    /\ UNCHANGED <<host, input, ifd, images, cacheVars>>

NextMake == CallFromReader \/ New \/ BufferedEntryTryFrom

SpecMake == InitMake /\ [][NextMake]_vars

(***************************************************************************)
(* SpecOrder: one logical content under both byte orders.  The content is  *)
(* a type and the primitives of its elements (a rational is two), each an  *)
(* integer given by its digits; its record is written once little-endian   *)
(* and once big-endian and each is decoded in its own byte order.  Beside   *)
(* it, fix_endianness is applied to buffers of any length.                 *)
(***************************************************************************)
BitDepths == {1, 8, 9, 16, 17, 32, 33, 64}
InlineBytes(bigtiff) == IF bigtiff THEN 8 ELSE 4
InlineTypes == TagTypes \ {"IFD", "IFD8"}

RECURSIVE Concat(_)
Concat(seqs) == IF Len(seqs) = 0 THEN <<>> ELSE Head(seqs) \o Concat(Tail(seqs))

\* the k-th primitive of a content: w digits, all different
Primitive(k, w) == [i \in 1..w |-> 16 * k + i]
PrimitivesOf(tag_type, count) ==
    [k \in 1..((count * size(tag_type)) \div primitive_size(tag_type)) |->
        Primitive(k, primitive_size(tag_type))]

\* the record of a content in byte order bo, as the test tables of ifd.rs
\* and entry.rs write it: every primitive in file order, zero padding after
RecordOfContent(tag_type, count, prims, bo, bigtiff) ==
    EntryRecord(to_u16(tag_type), NatDigits(count, 8),
                ZeroExt(Concat([k \in 1..Len(prims) |-> EncodeUInt(prims[k], bo)]),
                        FieldWidth(bigtiff)),
                bo, bigtiff)

InitOrder ==
    /\ CacheUnused
    /\ host \in ByteOrders
    /\ result = NoResult
    /\ \/ \E tag_type \in InlineTypes, count \in 0..MaxCount, bigtiff \in BOOLEAN :
            /\ count * size(tag_type) <= InlineBytes(bigtiff)
            /\ input = [op |-> "decode_both", tag_type |-> tag_type, count |-> count,
                        bigtiff |-> bigtiff, prims |-> PrimitivesOf(tag_type, count)]
       \/ \E bo \in ByteOrders, bit_depth \in BitDepths, len \in 0..MaxCount :
            input = [op |-> "fix_endianness", byte_order |-> bo, bit_depth |-> bit_depth,
                     buf |-> CountingField(len)]

DecodeBoth ==
    /\ input.op = "decode_both"
    /\ result = NoResult
    /\ result' =
          [tag |-> "Both",
           le |-> from_reader(RecordOfContent(input.tag_type, input.count, input.prims,
                                              "LittleEndian", input.bigtiff),
                              0, "LittleEndian", input.bigtiff),
           be |-> from_reader(RecordOfContent(input.tag_type, input.count, input.prims,
                                              "BigEndian", input.bigtiff),
                              0, "BigEndian", input.bigtiff)]
    /\ UNCHANGED <<host, input, ifd, images, cacheVars>>

FixEndianness ==
    /\ input.op = "fix_endianness"
    /\ result = NoResult
    /\ result' = [tag |-> "Fixed",
                  ret |-> fix_endianness(input.buf, input.byte_order, input.bit_depth)]
    /\ UNCHANGED <<host, input, ifd, images, cacheVars>>

NextOrder == DecodeBoth \/ FixEndianness

SpecOrder == InitOrder /\ [][NextOrder]_vars

(***************************************************************************)
(* What the record handed to from_reader says, read off the input.         *)
(***************************************************************************)
InlineCapacity(bigtiff) == IF bigtiff THEN 8 ELSE 4
RecordSize(bigtiff) == 2 + CountWidth(bigtiff) + FieldWidth(bigtiff)
FitsInline(count, width, capacity) == IsSmall(count) /\ count[1] * width <= capacity
LogicalOffset == ZeroExt(EncodeUInt(input.field, input.byte_order), 8)
Decoded == input.op = "from_reader" /\ result.tag \in {"Value", "Offset"}

\* C1: from_reader returns Value exactly when the type is neither IFD nor IFD8
\* and count * width is at most 4 bytes (classic) or 8 bytes (BigTIFF); every
\* other successfully decoded record comes back as Offset carrying the decoded
\* type, count and offset.
C1_InlineThreshold ==
    Decoded =>
        LET t == from_u16(input.code)
        IN  /\ (result.tag = "Value") <=>
                   (/\ t \notin {"IFD", "IFD8"}
                    /\ FitsInline(input.count, size(t), InlineCapacity(input.bigtiff)))
            /\ result.tag = "Offset" =>
                   /\ result.tag_type = t
                   /\ result.count = input.count
                   /\ result.offset = LogicalOffset

C1_Witness_IfdCountOne ==
    /\ Decoded
    /\ result.tag = "Offset"
    /\ from_u16(input.code) = "IFD"
    /\ input.count = NatDigits(1, 8)
    /\ input.byte_order = "BigEndian"

\* C2: every successful from_reader call advances the reader by the fixed
\* record size after the tag, 2 + 4 + 4 bytes (classic) or 2 + 8 + 8 bytes
\* (BigTIFF), whether the result is a Value or an Offset.
C2_FixedRecordConsumed ==
    Decoded => result.pos = RecordSize(input.bigtiff)

(***************************************************************************)
(* What a directory buffer says, read off the input.                       *)
(***************************************************************************)
Parsed == input.op = "from_buffer" /\ result # NoResult
DistinctTags(recs) == \A i, j \in 1..Len(recs) : recs[i].tag = recs[j].tag => i = j
\* the entry decoded from a record's own type, count and value-or-offset field
EntryOfRecord(rec) ==
    IfdEntryOf(from_reader(RecordBytes(rec, input.byte_order, input.bigtiff), 0,
                           input.byte_order, input.bigtiff))

\* C3: from_buffer on an entry count n followed by n well-formed fixed-size
\* records with distinct tags returns a directory with exactly n entries, the
\* i-th record's tag mapped to the entry decoded from that record's own fields.
C3_DirectoryOfRecords ==
    (Parsed /\ input.kind = "records" /\ DistinctTags(input.recs)) =>
        /\ result.tag = "Ok"
        /\ DOMAIN result.ifd.data = {input.recs[i].tag : i \in 1..Len(input.recs)}
        /\ \A i \in 1..Len(input.recs) :
               result.ifd.data[input.recs[i].tag] = EntryOfRecord(input.recs[i])

IsShort300At0x0100(r) ==
    /\ r.tag = "Ok"
    /\ DOMAIN r.ifd.data = {256}
    /\ r.ifd.data[256].tag = "Value"
    /\ r.ifd.data[256].entry.tag_type = "SHORT"
    /\ r.ifd.data[256].entry.count = 1
    /\ from_ne_bytes(r.ifd.data[256].entry.data) = <<44, 1>>

\* C5 as stated: the 10 bytes 01 00 00 01 03 00 2C 01 00 00 parse, as a
\* little-endian classic directory, to {0x0100: inline SHORT 300}.
C5_ScenarioA_TenBytes ==
    (Parsed /\ input.buf = ScenarioA10) => IsShort300At0x0100(result)

\* C5 amended: the 14 bytes 01 00 00 01 03 00 01 00 00 00 2C 01 00 00 (the
\* same record with its count field) parse to {0x0100: inline SHORT 300}.
C5_ScenarioA_WithCountField ==
    (Parsed /\ input.buf = ScenarioA14) => IsShort300At0x0100(result)

C5_Witness_Parsed14 ==
    /\ Parsed
    /\ input.buf = ScenarioA14
    /\ host = "BigEndian"
    /\ result.tag = "Ok"

(***************************************************************************)
(* What a conversion was given and what the numeric classes are.           *)
(***************************************************************************)
Converted(c) == input.op = "convert" /\ result.tag = "Returned" /\ result.conv = c
UnsignedGroup == {"BYTE", "SHORT", "LONG", "IFD", "LONG8", "IFD8"}
SignedGroup == {"SBYTE", "SSHORT", "SLONG", "SLONG8"}
GroupOf(T) ==
    IF T \in UnsignedTargets THEN UnsignedGroup
    ELSE IF T \in SignedTargets THEN SignedGroup
    ELSE IF T = "f32" THEN {"FLOAT"} ELSE {"FLOAT", "DOUBLE"}
\* the integer a digit string stands for, written in 64 bits
Widen64(d, signed) ==
    [i \in 1..8 |-> IF i <= Len(d) THEN d[i]
                    ELSE IF signed /\ Len(d) > 0 /\ d[Len(d)] >= 128 THEN 255 ELSE 0]
\* the stored integer survives being cut to w bytes
FitsIn(d, signed, w) ==
    Len(d) <= w \/ Widen64(SubSeq(d, 1, w), signed) = Widen64(d, signed)
Stored == from_ne_bytes(input.entry.data)

\* C6: a scalar conversion to an integer type T succeeds exactly when the
\* entry's type is in T's signedness group, the data length equals the type
\* width and the stored value fits in T; the result then equals the stored
\* value, and a stored value that does not fit fails with IntSizeError.
C6_IntegerScalarConversion ==
    (Converted("scalar") /\ result.target \notin FloatTargets) =>
        LET T == result.target
            e == input.entry
            signed == T \in SignedTargets
            eligible == e.tag_type \in GroupOf(T) /\ Len(e.data) = size(e.tag_type)
        IN  /\ (result.ret.tag = "Ok") <=> (eligible /\ FitsIn(Stored, signed, size_of(T)))
            /\ result.ret.tag = "Ok" =>
                   /\ Len(result.ret.val.digits) = size_of(T)
                   /\ Widen64(result.ret.val.digits, signed) = Widen64(Stored, signed)
            /\ (eligible /\ ~FitsIn(Stored, signed, size_of(T))) => result.ret = IntSizeError

C6_Witness_MinI8FromSShort ==
    /\ Converted("scalar")
    /\ result.target = "i8"
    /\ input.entry.tag_type = "SSHORT"
    /\ host = "BigEndian"
    /\ result.ret.tag = "Ok"
    /\ result.ret.val.digits = <<128>>

\* C7: a scalar conversion of a size-consistent entry whose type is outside
\* the target's numeric class fails with the class's error carrying a copy of
\* the entry (SignedIntegerExpected, UnsignedIntegerExpected, FloatExpected;
\* f32 from DOUBLE is FloatExpected), while f64 from FLOAT succeeds.
C7_WrongClassError ==
    (Converted("scalar") /\ Len(input.entry.data) = size(input.entry.tag_type)) =>
        LET T == result.target
            e == input.entry
        IN  /\ e.tag_type \notin GroupOf(T) =>
                   result.ret = [tag |-> "Err",
                                 err |-> <<"FormatError",
                                           IF T \in SignedTargets THEN "SignedIntegerExpected"
                                           ELSE IF T \in UnsignedTargets
                                                THEN "UnsignedIntegerExpected"
                                           ELSE "FloatExpected",
                                           e>>]
            /\ (T = "f64" /\ e.tag_type = "FLOAT") => result.ret.tag = "Ok"

C7_Witness_F32FromDouble ==
    /\ Converted("scalar")
    /\ result.target = "f32"
    /\ input.entry.tag_type = "DOUBLE"
    /\ Len(input.entry.data) = 8
    /\ result.ret.tag = "Err"
    /\ result.ret.err[2] = "FloatExpected"

\* C8: every scalar conversion fails with InconsistentSizesEncountered(entry)
\* when the data length differs from the type's width, for every tag type and
\* target, whether or not the type is in the target's numeric class.
C8_SizeCheckFirst ==
    (Converted("scalar") /\ Len(input.entry.data) # size(input.entry.tag_type)) =>
        result.ret = [tag |-> "Err",
                      err |-> <<"FormatError", "InconsistentSizesEncountered", input.entry>>]

C8_Witness_WrongClassTooLong ==
    /\ Converted("scalar")
    /\ result.target = "u8"
    /\ input.entry.tag_type = "FLOAT"
    /\ Len(input.entry.data) = 5
    /\ result.ret.tag = "Err"
    /\ result.ret.err[2] = "InconsistentSizesEncountered"

IsReference == input.entry.tag_type \in {"IFD", "IFD8"}
\* the same entry typed as the plain integer of the same width
AsPlainInteger(e) ==
    [e EXCEPT !.tag_type = IF e.tag_type = "IFD" THEN "LONG" ELSE "LONG8"]
\* a result whose error payload, if it carries an entry, carries entry e
CarryingEntry(r, e) ==
    IF r.tag = "Err" /\ Len(r.err) = 3 THEN [r EXCEPT !.err[3] = e] ELSE r
\* what the conversion that was called returns for entry e
SameCallOn(e) ==
    CASE result.conv = "scalar" -> scalar_try_from(result.target, e)
      [] result.conv = "slice" -> slice_try_from(result.target, e)
      [] result.conv = "get_u64" -> get_u64(e, result.index)
      [] result.conv = "str" -> str_try_from(e)
      [] OTHER -> value_try_from(e)

\* C9 as stated: every conversion (scalar, slice, get_u64, Value) of an entry
\* of type IFD or IFD8 fails with IfdReadIntoEntry; none ever succeeds.
C9_ReferenceNeverConverts ==
    (input.op = "convert" /\ result.tag = "Returned" /\ IsReference) =>
        result.ret = IfdReadIntoEntry

\* C9 amended: only the Value conversion rejects an IFD/IFD8 entry with
\* IfdReadIntoEntry, and it does so when count is 1 or the data holds at least
\* one whole element (otherwise it yields an empty List); the scalar, slice and
\* get_u64 conversions return for an IFD entry what they return for the same
\* entry typed LONG, and for IFD8 what they return for LONG8.
C9_ReferenceOnlyValueRejects ==
    (input.op = "convert" /\ result.tag = "Returned" /\ IsReference) =>
        LET e == input.entry
        IN  IF result.conv = "value"
            THEN IF e.count = 1 \/ Len(e.data) >= size(e.tag_type)
                 THEN result.ret = IfdReadIntoEntry
                 ELSE result.ret = Ok([v |-> "List", items |-> <<>>])
            ELSE /\ result.ret = CarryingEntry(SameCallOn(AsPlainInteger(e)), e)
                 /\ result.ret # IfdReadIntoEntry

C9_Witness_GetU64OfIfd8 ==
    /\ Converted("get_u64")
    /\ input.entry.tag_type = "IFD8"
    /\ input.entry.count = 2
    /\ result.index = 1
    /\ result.ret.tag = "Ok"

CanonicalType(T) ==
    CASE T = "f32" -> "FLOAT" [] T = "f64" -> "DOUBLE"
      [] T = "u8" -> "BYTE" [] T = "u16" -> "SHORT"
      [] T = "u32" -> "LONG" [] T = "u64" -> "LONG8"
      [] T = "i8" -> "SBYTE" [] T = "i16" -> "SSHORT"
      [] T = "i32" -> "SLONG" [] OTHER -> "SLONG8"

\* C10: a slice conversion to &[T] succeeds exactly when the data length is
\* count * type width and the entry's type is T's canonical TIFF type; the
\* slice then has count elements equal to the stored elements, and every
\* mismatch of size or type fails with InconsistentSizesEncountered.
C10_SliceConversion ==
    Converted("slice") =>
        LET T == result.target
            e == input.entry
            w == size(e.tag_type)
            matches == Len(e.data) = e.count * w /\ e.tag_type = CanonicalType(T)
        IN  /\ (result.ret.tag = "Ok") <=> matches
            /\ matches =>
                   /\ Len(result.ret.val.elems) = e.count
                   /\ \A k \in 1..e.count :
                          result.ret.val.elems[k] =
                              from_ne_bytes(SubSeq(e.data, (k - 1) * w + 1, k * w))
            /\ ~matches =>
                   result.ret = [tag |-> "Err",
                                 err |-> <<"FormatError", "InconsistentSizesEncountered", e>>]

(***************************************************************************)
(* Calls of the cache that have returned.                                  *)
(***************************************************************************)
Finished(t) == input.op = "get" /\ pc[t] = "idle" /\ returned[t] # NoResult
Unloaded(c) == input.variant = "Partial" /\ input.chunk_size > 0 /\ c \notin DOMAIN cache_data
ChunkOfCall(t) == returned[t].index \div input.chunk_size

\* C4: for concurrent get calls on indices of one chunk that is not loaded,
\* exactly one caller receives NeedRead for the chunk, every other caller
\* receives Pending, and no second NeedRead is issued while it is pending.
C4_SingleFetchPerChunk ==
    \A c \in Indices :
        Unloaded(c) =>
            /\ need_reads[c] <= 1
            /\ \A t \in Callers :
                   (Finished(t) /\ ChunkOfCall(t) = c) =>
                       /\ returned[t].out.tag \in {"NeedRead", "Pending"}
                       /\ need_reads[c] = 1

(***************************************************************************)
(* String decoding.                                                        *)
(***************************************************************************)
\* the call decoded the entry's bytes as a string: the &str conversion of a
\* size-consistent ASCII, BYTE or UNDEFINED entry, or the Value conversion of
\* an ASCII entry with count > 1
DecodedAsString ==
    \/ /\ Converted("str")
       /\ input.entry.tag_type \in {"ASCII", "BYTE", "UNDEFINED"}
       /\ Len(input.entry.data) = input.entry.count
    \/ /\ Converted("value")
       /\ input.entry.tag_type = "ASCII"
       /\ input.entry.count > 1
WithoutTerminator(data) == SubSeq(data, 1, Len(data) - 1)

\* C11: string decoding succeeds only when every byte is 7-bit ASCII and the
\* last byte is NUL, and then yields the input with just the trailing NUL
\* removed, every other byte (leading and interior NULs too) preserved; any
\* other content fails with InvalidTag.
C11_StringKeepsAllButTerminator ==
    DecodedAsString =>
        IF is_ascii(input.entry.data) /\ ends_with_nul(input.entry.data)
        THEN /\ result.ret.tag = "Ok"
             /\ result.ret.val.str = WithoutTerminator(input.entry.data)
        ELSE result.ret = InvalidTag

(***************************************************************************)
(* Value::try_from(BufferedEntry), by count.                               *)
(***************************************************************************)
\* the Value variant that holds one element of a type
VariantOf(t) ==
    CASE t = "BYTE" -> "Byte" [] t = "SBYTE" -> "SignedByte" [] t = "UNDEFINED" -> "Undefined"
      [] t = "SHORT" -> "Short" [] t = "SSHORT" -> "SShort" [] t = "LONG" -> "Long"
      [] t = "SLONG" -> "SLong" [] t = "LONG8" -> "Long8" [] t = "SLONG8" -> "SLong8"
      [] t = "RATIONAL" -> "Rational" [] t = "SRATIONAL" -> "SRational"
      [] t = "FLOAT" -> "Float" [] t = "DOUBLE" -> "Double" [] t = "ASCII" -> "Ascii"
      [] t = "IFD" -> "Ifd" [] OTHER -> "Ifd8"
\* element k of the entry's count elements, decoded on its own
ElementOf(e, k) ==
    IF k * size(e.tag_type) <= Len(e.data)
    THEN from_single(e.tag_type,
                     SubSeq(e.data, (k - 1) * size(e.tag_type) + 1, k * size(e.tag_type)))
    ELSE [tag |-> "Missing"]

\* C12: Value::try_from decodes by count: count 1 yields the single variant
\* of the entry's type (or an error); count > 1 with type ASCII yields one
\* Ascii string, never a list; count > 1 with any other type yields a List of
\* exactly count elements, element k decoded from the k-th element's bytes, and
\* fails if any element fails.
C12_DecodesByCount ==
    Converted("value") =>
        LET e == input.entry
        IN  CASE e.count = 1 ->
                   /\ result.ret.tag \in {"Ok", "Err"}
                   /\ result.ret.tag = "Ok" => result.ret.val.v = VariantOf(e.tag_type)
              [] e.count > 1 /\ e.tag_type = "ASCII" ->
                   /\ result.ret.tag \in {"Ok", "Err"}
                   /\ result.ret.tag = "Ok" => result.ret.val.v = "Ascii"
              [] e.count > 1 /\ e.tag_type # "ASCII" ->
                   IF \A k \in 1..e.count : ElementOf(e, k).tag = "Ok"
                   THEN result.ret =
                            Ok([v |-> "List",
                                items |-> [k \in 1..e.count |-> ElementOf(e, k).val]])
                   ELSE result.ret.tag = "Err"
              [] OTHER -> TRUE

(***************************************************************************)
(* Round trip.                                                             *)
(***************************************************************************)
\* C13: a value encoded as an entry (Value -> BufferedEntry -> on-disk record
\* in the chosen byte order and format), decoded with from_reader and
\* converted back to a Value, equals the original value, for every TagType,
\* both byte orders and both formats.
C13_RoundTrip ==
    result.tag = "RoundTrip" =>
        /\ result.back.tag = "Ok"
        /\ eq(result.back.val, input.value)

(***************************************************************************)
(* The directory: loading tag data and the queries.                        *)
(***************************************************************************)
\* the state of the tag of the last operation, in directory dir
Absent(dir) == result.key \notin DOMAIN dir
Unresolved(dir) == result.key \in DOMAIN dir /\ dir[result.key].tag = "Offset"
Resolved(dir) == result.key \in DOMAIN dir /\ dir[result.key].tag = "Value"

\* C14: insert_tag_data_from_buffer on a tag held as an unresolved Offset
\* replaces it with the given value; on a tag already held as a resolved Value
\* it fails with DuplicateTagData and leaves the directory unchanged.
C14_PromoteOnce ==
    result.tag = "Inserted" =>
        /\ Unresolved(result.before.data) =>
               ifd.data = insert(result.before.data, result.key,
                                 [tag |-> "Value", entry |-> result.data])
        /\ Resolved(result.before.data) =>
               /\ result.ret = DuplicateTagData
               /\ ifd = result.before

\* C15: the queries distinguish the three states of a tag.  Absent: get_tag
\* is None, get_tag_value is Ok(None), contains_key is false, require_tag and
\* require_tag_value fail with RequiredTagNotFound(tag).  Unresolved Offset:
\* require_tag returns the Offset entry, require_tag_value and get_tag_value
\* fail with RequiredTagNotLoaded carrying the tag and the entry's type, count
\* and offset.  Resolved: every query returns the stored BufferedEntry
\* (contains_key is true).
C15_QueriesByTagState ==
    result.tag = "Queried" =>
        LET q == result.query
            stored == ifd.data[result.key]
        IN  /\ Absent(ifd.data) =>
                  CASE q = "get_tag" -> result.ret = None
                    [] q = "get_tag_value" -> result.ret = Ok(None)
                    [] q = "contains_key" -> result.ret = FALSE
                    [] OTHER -> result.ret = RequiredTagNotFound(result.key)
            /\ Unresolved(ifd.data) =>
                  CASE q = "require_tag" -> result.ret = Ok(stored)
                    [] q \in {"require_tag_value", "get_tag_value"} ->
                           result.ret = RequiredTagNotLoaded(result.key, stored.tag_type,
                                                             stored.count, stored.offset)
                    [] OTHER -> TRUE
            /\ Resolved(ifd.data) =>
                  CASE q = "get_tag" -> result.ret = Some(stored)
                    [] q = "require_tag" -> result.ret = Ok(stored)
                    [] q = "require_tag_value" -> result.ret = Ok(stored.entry)
                    [] q = "get_tag_value" -> result.ret = Ok(Some(stored.entry))
                    [] OTHER -> result.ret = TRUE

\* get_tag_value met a tag that is present but not loaded
C15_Witness_ValueOfUnloadedTag ==
    /\ result.tag = "Queried"
    /\ result.query = "get_tag_value"
    /\ Unresolved(ifd.data)
    /\ result.ret.tag = "Err"
    /\ result.ret.err[2] = "RequiredTagNotLoaded"

(***************************************************************************)
(* Duplicate tags in a directory buffer.                                   *)
(***************************************************************************)
\* the last record that carries the tag of record i
LastOccurrence(recs, i) ==
    CHOOSE j \in 1..Len(recs) :
        /\ recs[j].tag = recs[i].tag
        /\ \A k \in (j + 1)..Len(recs) : recs[k].tag # recs[i].tag

\* C16: when the buffer carries the same tag more than once, from_buffer
\* succeeds and the directory holds, for every tag, exactly the entry of the
\* tag's last record in file order, with one map entry per distinct tag.
C16_LastOccurrenceWins ==
    (Parsed /\ input.kind = "records" /\ ~DistinctTags(input.recs)) =>
        /\ result.tag = "Ok"
        /\ DOMAIN result.ifd.data = {input.recs[i].tag : i \in 1..Len(input.recs)}
        /\ \A i \in 1..Len(input.recs) :
               result.ifd.data[input.recs[i].tag] =
                   EntryOfRecord(input.recs[LastOccurrence(input.recs, i)])

(***************************************************************************)
(* The cache used by one caller.                                           *)
(***************************************************************************)
Fresh == input.variant = "Partial" /\ input.chunk_size > 0 /\ cache_data = NoEntries
SingleCaller == \A t \in Callers \ {1} : seen[t] = NoResult

\* C17: on a fresh partial cache used by a single caller, the first get for an
\* index of chunk c returns NeedRead and marks c pending, and the second get
\* for an index of the same chunk, no data for c having been stored, returns
\* Pending: not a second NeedRead and not an error.
C17_SecondGetWaits ==
    (input.op = "get" /\ Fresh /\ SingleCaller /\ Finished(1)) =>
        /\ seen[1].nth = 1 =>
               /\ returned[1].out = NeedRead
               /\ ChunkOfCall(1) \in pending_chunks
        /\ seen[1].nth = 2 => returned[1].out = Pending(ChunkOfCall(1))

(***************************************************************************)
(* The cache and the outcome of a fetch.                                   *)
(***************************************************************************)
\* caller t's last call has returned and was for an index of chunk c
ReturnedFor(t, c) ==
    Finished(t) /\ input.variant = "Partial" /\ input.chunk_size > 0 /\ ChunkOfCall(t) = c

\* C18: when the in-flight fetch of a pending chunk has failed, the chunk is
\* back in the not-requested state, no caller is left holding a wait handle of
\* the chunk (each was released with the error), and a get for the chunk that
\* is entered after the failure yields a fetch descriptor (or, beside another
\* such get, a wait handle on the new fetch).
C18_FailureReleases ==
    \A c \in Indices :
        /\ fetch[c] = "failed" =>
               /\ c \notin pending_chunks
               /\ \A t \in Callers : ReturnedFor(t, c) => returned[t].out.tag # "Pending"
        /\ \A t \in Callers :
               (ReturnedFor(t, c) /\ seen[t].fetch = "failed") =>
                   /\ returned[t].out.tag \in {"NeedRead", "Pending"}
                   /\ need_reads[c] >= 2

\* the element of an index, as the chunk's bytes hold it
ElementAt(index) ==
    get_u64(ChunkEntry(i_chunk(index), input.chunk_size), subindex(index))

\* C19, as a property of finite runs: once the fetch of a pending chunk has
\* completed the chunk is loaded, so a get for an index of the chunk that is
\* entered after the completion returns Ok with the decoded element, the same
\* for every caller of that index.
C19_CompletionServesAll ==
    \A c \in Indices :
        /\ fetch[c] = "completed" => c \in DOMAIN cache_data
        /\ \A t \in Callers :
               (ReturnedFor(t, c) /\ seen[t].fetch = "completed") =>
                   returned[t].out = OkOf(ElementAt(returned[t].index))

(***************************************************************************)
(* Chunk requests against overview levels.                                 *)
(***************************************************************************)
OverviewNotLoaded(zoom_level) ==
    [tag |-> "Err", err |-> <<"UsageError", "OverviewNotLoaded", zoom_level>>]

\* C20: a chunk request against a level whose directory has not been loaded
\* returns an error value naming the missing level: it does not panic and does
\* not load the level; a request against a loaded level is served as usual.
C20_UnloadedLevelIsAnError ==
    result.tag = "GetChunk" =>
        /\ images = result.before
        /\ IF result.zoom_level \in result.before
           THEN result.ret = decode_chunk(result.zoom_level, result.i_chunk)
           ELSE result.ret = OverviewNotLoaded(result.zoom_level)

(***************************************************************************)
(* Panics.                                                                 *)
(***************************************************************************)
\* C21: no parsing or conversion operation panics: from_reader and
\* from_buffer on every buffer, byte order and format, and the conversions
\* between Value and BufferedEntry on every entry and value (a count-1 entry
\* with too few data bytes, an empty List and zero counts included) return Ok
\* or an Err value.
C21_NeverPanics ==
    /\ (input.op \in {"from_reader", "from_buffer"} /\ result # NoResult) =>
           result.tag \in {"Value", "Offset", "Ok", "Err"}
    /\ Converted("value") => result.ret.tag \in {"Ok", "Err"}
    /\ result.tag = "RoundTrip" => result.encoded.tag \in {"Ok", "Err"}

(***************************************************************************)
(* Records that end early or are refused early.                            *)
(***************************************************************************)
\* from_reader was called on a record of a known type whose buffer holds the
\* type code and the whole count
ReadTypeAndCount ==
    /\ input.op = "from_reader"
    /\ result # NoResult
    /\ from_u16(input.code) # "None"
    /\ input.cut >= 2 + CountWidth(input.bigtiff)
\* count * width is 2^64 or more
Overflows(count, width) == count[8] * width >= 256

\* C22: from_reader fails with LimitsExceeded, without reading the
\* value-or-offset field and without panicking, whenever count * type width
\* overflows 64-bit unsigned arithmetic, which takes BigTIFF and a type wider
\* than one byte.
C22_OverflowIsLimitsExceeded ==
    (ReadTypeAndCount /\ Overflows(input.count, size(from_u16(input.code)))) =>
        /\ result = LimitsExceeded
        /\ input.bigtiff
        /\ size(from_u16(input.code)) > 1

\* a BigTIFF DOUBLE record with count 2^61 whose buffer ends right after the
\* count: there is no field to read
C22_Witness_NoFieldToRead ==
    /\ ReadTypeAndCount
    /\ input.code = 12
    /\ input.count = <<0, 0, 0, 0, 0, 0, 0, 32>>
    /\ input.cut = 10
    /\ input.byte_order = "BigEndian"
    /\ result = LimitsExceeded

\* the buffer handed over lacks at least its last byte
CutShort == input.cut < Len(input.whole)
\* a record of a known type whose count * width fits 64 bits
WellFormedRecord ==
    /\ from_u16(input.code) # "None"
    /\ ~Overflows(input.count, size(from_u16(input.code)))
\* the bytes a primitive read of n bytes is due, in the order it reads them
BytesDue(n) == SubSeq(input.buf, input.pos + 1, input.pos + n)

\* C23: a primitive read consumes exactly size_of(T) bytes and fails with a
\* short-read error when fewer remain; from_reader and from_buffer pass that
\* error on as IoError, and return no directory, for a buffer that is cut at
\* any position inside the entry count or inside a record.
C23_ShortReadPropagates ==
    /\ result.tag = "Read" =>
           /\ result.ret.ok <=> input.pos + result.n <= Len(input.buf)
           /\ result.ret.ok =>
                  /\ result.ret.pos = input.pos + result.n
                  /\ EncodeUInt(result.ret.val, input.byte_order) = BytesDue(result.n)
    /\ (input.op = "from_reader" /\ result # NoResult /\ WellFormedRecord /\ CutShort) =>
           result = IoError
    /\ (input.op = "from_buffer" /\ result # NoResult /\ CutShort) =>
           result = IoError

InvalidTagValueType(code) ==
    [tag |-> "Err", err |-> <<"FormatError", "InvalidTagValueType", code>>]

\* C24: from_reader fails with FormatError(InvalidTagValueType(code)) for
\* every 16-bit type code that is not a registered TagType, right after the
\* 2-byte type code is read: neither the count nor the value-or-offset field
\* is read first, so the bytes after the code need not be there.
C24_UnknownTypeRefusedFirst ==
    (input.op = "from_reader" /\ result # NoResult
        /\ input.code \notin TypeCodes /\ input.cut >= 2) =>
        result = InvalidTagValueType(input.code)

\* type code 0xFFFF in a big-endian buffer that ends right after the code
C24_Witness_NothingAfterCode ==
    /\ input.op = "from_reader"
    /\ input.code = 65535
    /\ input.cut = 2
    /\ input.byte_order = "BigEndian"
    /\ result = InvalidTagValueType(65535)

(***************************************************************************)
(* The states of a chunk.                                                  *)
(***************************************************************************)
StateOf(c) ==
    IF c \in DOMAIN cache_data
    THEN IF c \in pending_chunks THEN "LoadedAndPending" ELSE "Loaded"
    ELSE IF c \in pending_chunks THEN "Pending" ELSE "NotRequested"
\* the moves of chunk c the state machine allows in one step
AllowedMove(c) ==
    \/ StateOf(c)' = StateOf(c)
    \/ StateOf(c) = "NotRequested" /\ StateOf(c)' = "Pending"
    \/ StateOf(c) = "Pending" /\ StateOf(c)' = "Loaded"
    \/ StateOf(c) = "Pending" /\ StateOf(c)' = "NotRequested" /\ fetch'[c] = "failed"

\* C25: in every reachable state of a partial cache each chunk index is in
\* exactly one of NotRequested (in neither map), Pending (in pending_chunks
\* only) and Loaded (in data only), never in both maps, and a chunk only moves
\* NotRequested -> Pending -> Loaded, or back to NotRequested on a failure.
C25_ChunkStates ==
    /\ [](input.op = "get" => \A c \in Indices : StateOf(c) # "LoadedAndPending")
    /\ [][input.op = "get" => \A c \in Indices : AllowedMove(c)]_vars

\* a get for a loaded chunk and a get for an unloaded one have both returned
C25_Witness_LoadedBesidePending ==
    /\ input.op = "get"
    /\ StateOf(0) = "Loaded"
    /\ StateOf(1) = "Pending"
    /\ \E t \in Callers : Finished(t) /\ ChunkOfCall(t) = 0 /\ returned[t].out.tag = "Ok"
    /\ \E t \in Callers : Finished(t) /\ ChunkOfCall(t) = 1 /\ returned[t].out.tag = "NeedRead"

(***************************************************************************)
(* What a fetch descriptor describes.                                      *)
(***************************************************************************)
\* width of an element of the cached tag (the chunks hold BYTE elements)
ElementWidth == size(ChunkEntry(0, 0).tag_type)
GotNeedRead(t) == Finished(t) /\ returned[t].out.tag = "NeedRead"

\* C26: the fetch descriptor a get returns for a not-requested chunk c of a
\* cache with base offset b, chunk size s and element width w describes that
\* chunk's bytes, the range [b + c*s*w, b + (c+1)*s*w) with a buffer of s*w
\* bytes, and the descriptors of different chunks differ.
C26_FetchDescribesChunk ==
    \A t \in Callers :
        GotNeedRead(t) =>
            /\ returned[t].out.offset =
                   input.offset + ChunkOfCall(t) * input.chunk_size * ElementWidth
            /\ Len(returned[t].out.buf) = input.chunk_size * ElementWidth
            /\ \A u \in Callers :
                   (GotNeedRead(u) /\ ChunkOfCall(u) # ChunkOfCall(t)) =>
                       returned[u].out # returned[t].out

(***************************************************************************)
(* Contention between lookups of different chunks.                         *)
(***************************************************************************)
\* in this step caller t's get returns the error of a lock it could not take
FailsOnLock(t) ==
    /\ pc[t] \in {"try_lock", "try_lock_insert"}
    /\ pc'[t] = "idle"
    /\ returned'[t].out = TryLockError
\* the lock is held by another caller, whose lookup is for a different chunk
HeldForOtherChunk(t) ==
    /\ mutex \notin {Free, t}
    /\ i_chunk(call[mutex]) # i_chunk(call[t])

\* C27: a get for an index of chunk j never fails (and never waits) because
\* another task is fetching, waiting on or looking up a different chunk i # j:
\* contention on the cache's locks does not reach an unrelated lookup as an
\* error such as TryLockError.
C27_OtherChunksDoNotInterfere ==
    [][\A t \in Callers : FailsOnLock(t) => ~HeldForOtherChunk(t)]_vars

(***************************************************************************)
(* The entries the code builds.                                            *)
(***************************************************************************)
\* the BufferedEntry the last call built, if it built one
Produced ==
    IF input.op = "from_reader" /\ result.tag = "Value" THEN {result.entry}
    ELSE IF result.tag = "Made" /\ result.ret.tag = "Ok" THEN {result.ret.val}
    ELSE {}

\* C28: every BufferedEntry the code builds (the inline entries of
\* from_reader, BufferedEntry::new, TryFrom<Value> with its List and Ascii
\* arms) has data.len() == count * tag_type.size() and a tag type that is not
\* a reference type (IFD, IFD8).
C28_EntriesAreConsistent ==
    \A e \in Produced :
        /\ Len(e.data) = e.count * size(e.tag_type)
        /\ e.tag_type \notin {"IFD", "IFD8"}

(***************************************************************************)
(* Byte order.                                                             *)
(***************************************************************************)
\* the content's bytes in the host's order: every primitive on its own
NativeData(prims) == Concat([k \in 1..Len(prims) |-> to_ne_bytes(prims[k])])

\* C29: decoding does not depend on the byte order: for a content that fits
\* inline, its little-endian record decoded as LittleEndian and its
\* big-endian record decoded as BigEndian yield equal entries, with the
\* content's type and count and its data in native order, every element
\* swapped on its own and a rational per 4-byte half; fix_endianness never
\* changes the length of the buffer and leaves the buffer as it is when the
\* byte order is the host's or the primitive has at most 8 bits.
C29_ByteOrderIndependent ==
    /\ result.tag = "Both" =>
           /\ result.le = result.be
           /\ result.le.tag = "Value"
           /\ result.le.entry = [tag_type |-> input.tag_type, count |-> input.count,
                                 data |-> NativeData(input.prims)]
    /\ result.tag = "Fixed" =>
           /\ Len(result.ret) = Len(input.buf)
           /\ (input.byte_order = host \/ input.bit_depth <= 8) => result.ret = input.buf

\* a BigTIFF RATIONAL decoded from both records on a little-endian host
C29_Witness_RationalBothOrders ==
    /\ result.tag = "Both"
    /\ input.tag_type = "RATIONAL"
    /\ input.count = 1
    /\ host = "LittleEndian"
    /\ result.be.tag = "Value"
    /\ result.be.entry.data = <<17, 18, 19, 20, 33, 34, 35, 36>>

(***************************************************************************)
(* get_u64 of an entry.                                                    *)
(***************************************************************************)
U64(n) == [ty |-> "u64", digits |-> NatDigits(n, 8)]

\* C30: BufferedEntry::get_u64(index) returns the index-th element widened to
\* u64 such that, as test_arcyness asserts, get_u64(2) on the BYTE entry with
\* count 5 and data [42, 43, 44, 45, 46] returns 43; an index >= count fails
\* with LimitsExceeded and an entry of a type that is not an unsigned integer
\* fails with UnsignedIntegerExpected.
C30_GetU64AsTested ==
    Converted("get_u64") =>
        /\ (input.entry = test_arcyness_entry /\ result.index = 2) =>
               result.ret = Ok(U64(43))
        /\ result.index >= input.entry.count => result.ret = LimitsExceeded
        /\ (result.index < input.entry.count /\ input.entry.tag_type \notin UnsignedGroup) =>
               result.ret = UnsignedIntegerExpected(input.entry)

====
